---------------------------- MODULE Spec2Model ----------------------------
(* Build completion tracking (build/build.ts, waitForBuildEndAsync),        *)
(* submission archive resolution (submit/ArchiveSource.ts, getArchiveAsync) *)
(* and the preparation and dispatch of a build request (build/build.ts,     *)
(* prepareBuildRequestForPlatformAsync) of eas-cli, as state machines.      *)
EXTENDS Integers, Sequences, FiniteSets, TLC

VARIABLES
    \* ---- waitForBuildEndAsync ----
    buildIds,       \* argument: the ids to wait for
    timeoutSec,     \* option
    intervalSec,    \* option
    fetchLatency,   \* environment: the time (ms) a round of fetches takes
    clock,          \* environment: new Date().getTime()
    start,          \* the clock when the call was made
    remote,         \* environment: the build service's record of each build
    pc,             \* position in waitForBuildEndAsync
    time,           \* local `time`
    endTime,        \* local `endTime`
    tickStart,      \* the clock when the current fetch round was started
    pending,        \* indices of buildIds whose fetch of this tick is in flight
    settled,        \* index -> what the fetch of this tick resolved to
    order,          \* the indices in the order their fetches completed
    builds,         \* local `builds` of the latest tick
    observed,       \* history (single-build mode): the build of every tick so far
    result,         \* the value the promise resolved to
    thrown,         \* the error the promise rejected with
    \* ---- getArchiveAsync ----
    source,         \* argument of the current call of getArchiveAsync
    initialSource,  \* argument of the outermost call
    catalog,        \* environment: the project's builds on the service, newest first
    apc,            \* position: a call is due, or the outermost call has ended
    archive,        \* the Archive the outermost call resolved to
    rejected,       \* the error the outermost call rejected with
    calls,          \* calls of getArchiveAsync so far
    prompts,        \* promptAsync calls so far
    confirms,       \* confirmAsync calls so far
    uploads,        \* uploadAppArchiveAsync calls so far
    fetches,        \* queries of the service's builds so far
    lastQuery,      \* whether the latest query resolved or failed
    \* ---- prepareBuildRequestForPlatformAsync and the sender it returns ----
    ctx,            \* builder.ctx: platform and the options the code reads
    ppc,            \* position in prepareBuildRequestForPlatformAsync
    steps,          \* history: the collaborators called so far, in call order
    credentialsResult, \* local `credentialsResult`
    projectArchive, \* local `projectArchive`
    job,            \* local `job`
    disk,           \* environment: the project tarballs on disk
    prepThrown,     \* the error prepareBuildRequestForPlatformAsync rejected with
    spc,            \* position of the sender
    invocations,    \* invocations of the sender so far
    requests,       \* builder.sendBuildRequestAsync calls so far
    responses,      \* history: what the service answered to each request
    logged,         \* the messages given to Log.error so far
    senderResult,   \* what the latest invocation of the sender resolved to
    senderThrown    \* what the latest invocation of the sender rejected with

waitVars == <<buildIds, timeoutSec, intervalSec, fetchLatency, clock, start,
              remote, pc, time, endTime, tickStart, pending, settled, order,
              builds, observed, result, thrown>>

archVars == <<source, initialSource, catalog, apc, archive, rejected, calls,
              prompts, confirms, uploads, fetches, lastQuery>>

prepVars == <<ctx, ppc, steps, credentialsResult, projectArchive, job, disk,
              prepThrown, spc, invocations, requests, responses, logged,
              senderResult, senderThrown>>

vars == <<waitVars, archVars, prepVars>>

\* prepareBuildRequestForPlatformAsync has not been called
PrepIdle ==
    /\ ctx = "none"
    /\ ppc = "idle"
    /\ steps = <<>>
    /\ credentialsResult = "none"
    /\ projectArchive = "none"
    /\ job = "none"
    /\ disk = {}
    /\ prepThrown = "none"
    /\ spc = "idle"
    /\ invocations = 0
    /\ requests = 0
    /\ responses = <<>>
    /\ logged = <<>>
    /\ senderResult = "none"
    /\ senderThrown = "none"

-----------------------------------------------------------------------------
(* Bounds *)

MaxBuilds == 2
MaxTimeout == 2
MaxInterval == 1
MaxLatency == 1

MaxCalls == 4
MaxCatalog == 2

MsPerSec == 1000

\* build ids; which ids are asked for does not matter to the code, so the
\* calls considered are those for the first k ids, in order
Ids == 1..MaxBuilds

-----------------------------------------------------------------------------
(* BuildStatus and BuildFragment *)

New == "NEW"
InQueue == "IN_QUEUE"
InProgress == "IN_PROGRESS"
Finished == "FINISHED"
Errored == "ERRORED"
Canceled == "CANCELED"
\* a status value of the service that the BuildStatus enum does not list
Unrecognized == "UNRECOGNIZED"

BuildStatus == {New, InQueue, InProgress, Errored, Canceled, Finished}

AnyStatus == BuildStatus \cup {Unrecognized}

\* the `null` a failed fetch yields
Null == [id |-> 0, status |-> "null", error |-> FALSE]

BuildFragment(id, r) == [id |-> id, status |-> r.status, error |-> r.error]

NoResult == <<"no result">>
NoError == "none"

\* the errors waitForBuildEndAsync throws (lines 258, 262, 309)
StandaloneBuildFailed == "Standalone build failed!"
UnknownBuildStatus == "Unknown build status"
TimeoutReached == "Timeout reached!"

RemoteRecord == [status : AnyStatus, error : BOOLEAN]

\* The service's progression of a build: New -> InQueue -> InProgress ->
\* {Finished, Errored, Canceled}; a terminal build never changes.
Successors(r) ==
    CASE r.status = New ->
            {[status |-> s, error |-> FALSE] : s \in {InQueue, Canceled, Unrecognized}}
      [] r.status = InQueue ->
            {[status |-> s, error |-> FALSE] : s \in {InProgress, Canceled, Unrecognized}}
      [] r.status \in {InProgress, Unrecognized} ->
            {[status |-> s, error |-> FALSE] : s \in {Finished, Canceled}}
            \cup {[status |-> Errored, error |-> e] : e \in BOOLEAN}
      [] OTHER -> {}

RECURSIVE Closure(_)
Closure(S) ==
    LET N == S \cup UNION {Successors(x) : x \in S}
    IN IF N = S THEN S ELSE Closure(N)

\* what the service may hold for a build whose last known record is r
Progressed(r) == Closure({r})

-----------------------------------------------------------------------------
(* waitForBuildEndAsync: the pure parts *)

\* builds.filter(build => build?.status === ...).length
CountStatus(bs, statuses) ==
    Cardinality({i \in DOMAIN bs : bs[i] # Null /\ bs[i].status \in statuses})

\* (mutant) the results in the order the fetches completed
PromiseAllInCompletionOrder(res, done) == [i \in 1..Len(done) |-> res[done[i]]]

\* (mutant) the results in the reverse of the order the fetches completed
PromiseAllReversed(res, done) ==
    [i \in 1..Len(done) |-> res[done[Len(done) + 1 - i]]]

\* Promise.all: the results in the order of the input, whatever the order of
\* completion
PromiseAll(res, done) == [i \in 1..Len(done) |-> res[i]]

\* (mutant) Finished only updates the spinner and polling goes on
SingleOutcomeFinishedContinues(build) ==
    IF build # Null
    THEN CASE build.status \in {Finished, New, InQueue, InProgress} -> "continue"
           [] build.status = Canceled -> "return"
           [] build.status = Errored ->
                IF build.error THEN "return" ELSE "throwFailed"
           [] OTHER -> "throwUnknown"
    ELSE "continue"

\* (mutant) a failed build is returned whether or not it carries an error
SingleOutcomeErroredReturns(build) ==
    IF build # Null
    THEN CASE build.status \in {Finished, Canceled, Errored} -> "return"
           [] build.status \in {New, InQueue, InProgress} -> "continue"
           [] OTHER -> "throwUnknown"
    ELSE "continue"

\* (mutant) the switch has no default branch
SingleOutcomeNoDefault(build) ==
    IF build # Null
    THEN CASE build.status \in {Finished, Canceled} -> "return"
           [] build.status \in {New, InQueue, InProgress} -> "continue"
           [] build.status = Errored ->
                IF build.error THEN "return" ELSE "throwFailed"
           [] OTHER -> "continue"
    ELSE "continue"

\* the switch of single-build mode
SingleOutcome(build) ==
    IF build # Null
    THEN CASE build.status = Finished -> "return"
           [] build.status = New -> "continue"
           [] build.status = InQueue -> "continue"
           [] build.status = Canceled -> "return"
           [] build.status = InProgress -> "continue"
           [] build.status = Errored ->
                IF build.error THEN "return" ELSE "throwFailed"
           [] OTHER -> "throwUnknown"
    ELSE "continue"

\* lines 285-291: the counts of the spinner text
SpinnerCounts(bs) ==
    LET newBuilds == CountStatus(bs, {New})
        inQueue == CountStatus(bs, {InQueue})
        inProgress == CountStatus(bs, {InProgress})
        errored == CountStatus(bs, {Errored})
        finished == CountStatus(bs, {Finished})
        canceled == CountStatus(bs, {Canceled})
    IN [newBuilds |-> newBuilds, inQueue |-> inQueue, inProgress |-> inProgress,
        errored |-> errored, finished |-> finished, canceled |-> canceled,
        unknown |-> Len(bs) - newBuilds - inQueue - inProgress - errored - finished]

\* (mutant) a failed fetch counts as a build that ended
MultiOutcomeNullIsTerminal(bs) ==
    IF CountStatus(bs, {Finished}) = Len(bs)
    THEN "return"
    ELSE IF Cardinality({i \in DOMAIN bs :
                            \/ bs[i] = Null
                            \/ bs[i].status \in {Finished, Errored, Canceled}})
               = Len(bs)
         THEN "return"
         ELSE "continue"

\* (mutant) with no build at all there is nothing to return
MultiOutcomeNeedsABuild(bs) ==
    IF Len(bs) = 0
    THEN "continue"
    ELSE IF CountStatus(bs, {Finished}) = Len(bs)
         THEN "return"
         ELSE IF CountStatus(bs, {Finished, Errored, Canceled}) = Len(bs)
              THEN "return"
              ELSE "continue"

\* (mutant) several builds are returned only when all of them finished
MultiOutcomeAllFinishedOnly(bs) ==
    IF CountStatus(bs, {Finished}) = Len(bs) THEN "return" ELSE "continue"

\* (mutant) a failed build among several ends the wait at once
MultiOutcomeErroredAborts(bs) ==
    IF CountStatus(bs, {Finished}) = Len(bs)
    THEN "return"
    ELSE IF CountStatus(bs, {Errored}) > 0
         THEN "return"
         ELSE IF CountStatus(bs, {Finished, Errored, Canceled}) = Len(bs)
              THEN "return"
              ELSE "continue"

\* the if-chain of multi-build mode
MultiOutcome(bs) ==
    IF CountStatus(bs, {Finished}) = Len(bs)
    THEN "return"
    ELSE IF CountStatus(bs, {Finished, Errored, Canceled}) = Len(bs)
         THEN "return"
         ELSE "continue"

Outcome(bs) ==
    IF Len(bs) = 1 THEN SingleOutcome(bs[1]) ELSE MultiOutcome(bs)

-----------------------------------------------------------------------------
(* getArchiveAsync: data *)

BUILD_LIST_ITEM_COUNT == 4

\* artifacts expire after 30 days
ExpiryDays == 30

ArchiveSourceType == {"url", "latest", "path", "buildId", "buildList", "prompt"}

Platform == {"android", "ios"}

AppPlatform == {"ANDROID", "IOS"}

toAppPlatform(platform) == IF platform = "android" THEN "ANDROID" ELSE "IOS"

\* the strings considered as build ids: two version-4 UUIDs of builds that may
\* be on the service, a version-4 UUID of no build, and an id of the classic
\* build service
BuildIdStrings == {"uuid4-a", "uuid4-b", "uuid4-x", "classic-id"}

isUuidV4(str) == str \in {"uuid4-a", "uuid4-b", "uuid4-x"}

\* the strings considered as URLs, each with what `new URL` and the
\* build-details pattern make of it
UrlStrings ==
    {"not a url", "ftp://host/app.aab", "https://host/app.aab",
     "http://host/app.apk",
     "https://expo.dev/acc/proj/builds/uuid4-a",
     "https://expo.dev/acc/proj/builds/uuid4-x",
     "https://expo.dev/acc/proj/builds/classic-id"}

defaultArchiveUrl == "https://url.to/your/archive.aab"

UrlParses(url) == url # "not a url"

UrlProtocol(url) ==
    CASE url = "ftp://host/app.aab" -> "ftp:"
      [] url = "http://host/app.apk" -> "http:"
      [] OTHER -> "https:"

\* url.match(/expo\.(dev|io).*\/builds\/(.{36}).*/): the second group, or "" when
\* there is no match
UrlMatchBuilds(url) ==
    CASE url = "https://expo.dev/acc/proj/builds/uuid4-a" -> "uuid4-a"
      [] url = "https://expo.dev/acc/proj/builds/uuid4-x" -> "uuid4-x"
      [] url = "https://expo.dev/acc/proj/builds/classic-id" -> "classic-id"
      [] OTHER -> ""

validateUrl(url) ==
    IF UrlParses(url) THEN UrlProtocol(url) \in {"http:", "https:"} ELSE FALSE

\* the build id in the URL of a build details page, or FALSE
isBuildDetailsPage(url) ==
    LET maybeBuildId == UrlMatchBuilds(url)
    IN IF maybeBuildId # ""
       THEN IF isUuidV4(maybeBuildId) THEN maybeBuildId ELSE "false"
       ELSE "false"

PathStrings == {"/tmp/app.aab", "/tmp/missing.aab"}

isExistingFile(path) == path = "/tmp/app.aab"

uploadUrl(path) == "https://submission-service/upload" 

NoUrl == ""
NoBuild == [id |-> "", platform |-> "", age |-> 0]

\* a build of the project as the service lists it; age is the time since
\* updatedAt, in days
Build == [id : {"uuid4-a", "uuid4-b"}, platform : AppPlatform,
          age : {ExpiryDays, ExpiryDays + 1}]

IsExpired(build) == build.age > ExpiryDays

Catalogs ==
    {c \in UNION {[1..k -> Build] : k \in 0..MaxCatalog} :
        \A i, j \in DOMAIN c : i < j => c[i].id # c[j].id /\ c[i].age <= c[j].age}

RECURSIVE SelectPlatform(_, _)
SelectPlatform(c, appPlatform) ==
    IF c = <<>> THEN <<>>
    ELSE IF Head(c).platform = appPlatform
         THEN <<Head(c)>> \o SelectPlatform(Tail(c), appPlatform)
         ELSE SelectPlatform(Tail(c), appPlatform)

Take(c, n) == SubSeq(c, 1, IF Len(c) < n THEN Len(c) ELSE n)

\* getRecentBuildsForSubmissionAsync: the builds of the platform, newest first
getRecentBuildsForSubmission(appPlatform, limit) ==
    Take(SelectPlatform(catalog, appPlatform), limit)

\* BuildQuery.byIdAsync: the builds with that id (one or none)
BuildsById(id) == {catalog[i] : i \in {j \in DOMAIN catalog : catalog[j].id = id}}

ArchiveSource ==
    [sourceType : ArchiveSourceType, platform : Platform, projectId : {"p1"},
     nonInteractive : BOOLEAN, url : UrlStrings \cup {NoUrl},
     path : PathStrings \cup {""}, id : BuildIdStrings \cup {""}]

\* the sources a command can start from: the field of the variant is set
InitialSources ==
    {src \in ArchiveSource :
        /\ (src.url # NoUrl) = (src.sourceType = "url")
        /\ (src.path # "") = (src.sourceType = "path")
        /\ (src.id # "") = (src.sourceType = "buildId")}

\* the source of an Archive that has not been produced
NoSource ==
    [sourceType |-> "none", platform |-> "", projectId |-> "",
     nonInteractive |-> FALSE, url |-> NoUrl, path |-> "", id |-> ""]

NoArchive == [url |-> NoUrl, build |-> NoBuild, source |-> NoSource]

RecentBuildsError == "getRecentBuildsForSubmissionAsync failed"
UploadError == "uploadAppArchiveAsync failed"

ArchIdle ==
    /\ source = "none"
    /\ initialSource = "none"
    /\ catalog = <<>>
    /\ apc = "idle"
    /\ archive = NoArchive
    /\ rejected = NoError
    /\ calls = 0
    /\ prompts = 0
    /\ confirms = 0
    /\ uploads = 0
    /\ fetches = 0
    /\ lastQuery = "none"

WaitIdle ==
    /\ buildIds = <<>>
    /\ timeoutSec = 0
    /\ intervalSec = 0
    /\ fetchLatency = 0
    /\ clock = 0
    /\ start = 0
    /\ remote = <<>>
    /\ pc = "idle"
    /\ time = 0
    /\ endTime = 0
    /\ tickStart = 0
    /\ pending = {}
    /\ settled = <<>>
    /\ order = <<>>
    /\ builds = <<>>
    /\ observed = <<>>
    /\ result = NoResult
    /\ thrown = NoError

-----------------------------------------------------------------------------
(* waitForBuildEndAsync: the steps *)

\* The call: any number of ids up to MaxBuilds, any timeout, a positive
\* interval. Every build starts as New on the service; a fetch sees it in
\* any status it may have progressed to by then.
WaitInit ==
    /\ buildIds \in {[i \in 1..k |-> i] : k \in 0..MaxBuilds}
    /\ timeoutSec \in 0..MaxTimeout
    /\ intervalSec \in 1..MaxInterval
    /\ fetchLatency \in 0..MaxLatency
    /\ clock = 0
    /\ start = 0
    /\ remote = [id \in Ids |-> [status |-> New, error |-> FALSE]]
    /\ pc = "init"
    /\ time = 0
    /\ endTime = 0
    /\ tickStart = 0
    /\ pending = {}
    /\ settled = <<>>
    /\ order = <<>>
    /\ builds = <<>>
    /\ observed = <<>>
    /\ result = NoResult
    /\ thrown = NoError
    /\ ArchIdle
    /\ PrepIdle

\* lines 216-221
Begin ==
    /\ pc = "init"
    /\ start' = clock
    /\ time' = clock
    /\ endTime' = clock + timeoutSec * MsPerSec
    /\ pc' = "loop"
    /\ UNCHANGED <<archVars, prepVars, buildIds, timeoutSec, intervalSec, fetchLatency, clock,
                   remote, tickStart, pending, settled, order, builds,
                   observed, result, thrown>>

\* line 222 (condition true), lines 223-224: every fetch is started
StartFetches ==
    /\ pc = "loop"
    /\ time <= endTime
    /\ pending' = DOMAIN buildIds
    /\ settled' = [i \in DOMAIN buildIds |-> Null]
    /\ order' = <<>>
    /\ tickStart' = clock
    /\ pc' = "fetch"
    /\ UNCHANGED <<archVars, prepVars, buildIds, timeoutSec, intervalSec, fetchLatency, clock,
                   start, remote, time, endTime, builds, observed, result,
                   thrown>>

\* (mutant) the timeout hands the latest builds to the caller
TimedOutWithBuilds ==
    /\ pc = "loop"
    /\ ~(time <= endTime)
    /\ thrown' = TimeoutReached
    /\ result' = builds
    /\ pc' = "thrown"
    /\ UNCHANGED <<archVars, prepVars, buildIds, timeoutSec, intervalSec, fetchLatency, clock,
                   start, remote, time, endTime, tickStart, pending, settled,
                   order, builds, observed>>

\* line 222 (condition false), lines 308-311
TimedOut ==
    /\ pc = "loop"
    /\ ~(time <= endTime)
    /\ thrown' = TimeoutReached
    /\ pc' = "thrown"
    /\ UNCHANGED <<archVars, prepVars, buildIds, timeoutSec, intervalSec, fetchLatency, clock,
                   start, remote, time, endTime, tickStart, pending, settled,
                   order, builds, observed, result>>

\* lines 225-226: the fetch of buildIds[i] resolves with the record r the
\* service holds by now
FetchResolves(i, r) ==
    /\ pc = "fetch"
    /\ i \in pending
    /\ r \in Progressed(remote[buildIds[i]])
    /\ remote' = [remote EXCEPT ![buildIds[i]] = r]
    /\ settled' = [settled EXCEPT ![i] = BuildFragment(buildIds[i], r)]
    /\ order' = Append(order, i)
    /\ pending' = pending \ {i}
    /\ UNCHANGED <<archVars, prepVars, buildIds, timeoutSec, intervalSec, fetchLatency, clock,
                   start, pc, time, endTime, tickStart, builds, observed,
                   result, thrown>>

\* (mutant) the error of the fetch is not caught and rejects Promise.all
FetchFailsRejects(i) ==
    /\ pc = "fetch"
    /\ i \in pending
    /\ thrown' = "Failed to fetch the build status"
    /\ pc' = "thrown"
    /\ UNCHANGED <<archVars, prepVars, buildIds, timeoutSec, intervalSec, fetchLatency, clock,
                   start, remote, time, endTime, tickStart, pending, settled,
                   order, builds, observed, result>>

\* lines 227-230: the fetch of buildIds[i] throws and the error is caught
FetchFails(i) ==
    /\ pc = "fetch"
    /\ i \in pending
    /\ settled' = [settled EXCEPT ![i] = Null]
    /\ order' = Append(order, i)
    /\ pending' = pending \ {i}
    /\ UNCHANGED <<archVars, prepVars, buildIds, timeoutSec, intervalSec, fetchLatency, clock,
                   start, remote, pc, time, endTime, tickStart, builds,
                   observed, result, thrown>>

\* lines 223-305: Promise.all resolves, the statuses are evaluated
Evaluate ==
    /\ pc = "fetch"
    /\ pending = {}
    /\ LET bs == PromiseAll(settled, order)
           out == Outcome(bs)
       IN /\ builds' = bs
          /\ observed' = IF Len(bs) = 1 THEN Append(observed, bs[1]) ELSE observed
          /\ clock' = clock + fetchLatency
          /\ CASE out = "return" ->
                    /\ result' = bs
                    /\ pc' = "returned"
                    /\ UNCHANGED <<thrown, time>>
               [] out = "throwFailed" ->
                    /\ thrown' = StandaloneBuildFailed
                    /\ pc' = "thrown"
                    /\ UNCHANGED <<result, time>>
               [] out = "throwUnknown" ->
                    /\ thrown' = UnknownBuildStatus
                    /\ pc' = "thrown"
                    /\ UNCHANGED <<result, time>>
               [] OTHER ->
                    /\ time' = clock'
                    /\ pc' = "sleep"
                    /\ UNCHANGED <<result, thrown>>
    /\ settled' = <<>>
    /\ order' = <<>>
    /\ UNCHANGED <<archVars, prepVars, buildIds, timeoutSec, intervalSec, fetchLatency, start,
                   remote, endTime, tickStart, pending>>

\* lines 306-307: the sleep ends, and with it the iteration and the scope of
\* its `builds`
Sleep ==
    /\ pc = "sleep"
    /\ clock' = clock + intervalSec * MsPerSec
    /\ builds' = <<>>
    /\ pc' = "loop"
    /\ UNCHANGED <<archVars, prepVars, buildIds, timeoutSec, intervalSec, fetchLatency, start,
                   remote, time, endTime, tickStart, pending, settled, order,
                   observed, result, thrown>>

WaitNext ==
    \/ Begin
    \/ StartFetches
    \/ TimedOut
    \/ \E i \in DOMAIN buildIds : \E r \in RemoteRecord : FetchResolves(i, r)
    \/ \E i \in DOMAIN buildIds : FetchFails(i)
    \/ Evaluate
    \/ Sleep

SpecWait == WaitInit /\ [][WaitNext]_vars

-----------------------------------------------------------------------------
(* waitForBuildEndAsync: properties *)

Deadline == start + timeoutSec * MsPerSec

ErroredWithoutError(b) == b # Null /\ b.status = Errored /\ ~b.error

StatusOutsideEnum(b) == b # Null /\ b.status \notin BuildStatus

\* C1: whenever waitForBuildEndAsync returns, the result has one slot per
\* input id and slot i holds the snapshot fetched for buildIds[i], whatever
\* the order in which the fetches of the tick completed.
C1_ResultInInputOrder ==
    pc = "returned" =>
        /\ Len(result) = Len(buildIds)
        /\ \A i \in DOMAIN buildIds :
              result[i] = BuildFragment(buildIds[i], remote[buildIds[i]])

\* two builds in different statuses are returned
C1_Witness ==
    /\ pc = "returned"
    /\ Len(result) >= 2
    /\ result[1].status # result[2].status

\* C2: a single build fetched as New, InQueue, InProgress and then Finished is
\* returned as a one-element result, without the timeout error.
C2_SingleBuildFinishes ==
    ( /\ Len(buildIds) = 1
      /\ Len(observed) = 4
      /\ observed[1].status = New
      /\ observed[2].status = InQueue
      /\ observed[3].status = InProgress
      /\ observed[4].status = Finished )
    => /\ pc = "returned"
       /\ result = <<observed[4]>>
       /\ thrown = NoError

C2_Witness ==
    /\ Len(buildIds) = 1
    /\ Len(observed) = 4
    /\ observed[1].status = New
    /\ observed[2].status = InQueue
    /\ observed[3].status = InProgress
    /\ observed[4].status = Finished
    /\ pc = "returned"

\* C3 (as claimed): for a build that stays InProgress, with fetches that take
\* no time, the timeout error is raised no earlier than start + timeoutSec
\* and no later than start + timeoutSec + intervalSec.
C3_TimeoutWithinOneInterval ==
    ( /\ pc = "thrown"
      /\ thrown = TimeoutReached
      /\ fetchLatency = 0
      /\ Len(buildIds) = 1
      /\ \A k \in DOMAIN observed : observed[k].status = InProgress )
    => /\ clock >= Deadline
       /\ clock <= Deadline + intervalSec * MsPerSec

\* C4 (as claimed): no round of fetches is started after the deadline, and no
\* snapshots fetched after the deadline are returned.
C4_NoFetchAfterDeadline ==
    /\ pc = "fetch" => tickStart <= Deadline
    /\ pc = "returned" => tickStart <= Deadline

C7_TimeoutCarriesBuilds ==
    (pc = "thrown" /\ thrown = TimeoutReached)
    => /\ result # NoResult
       /\ Len(result) = Len(buildIds)

\* C7 (amended): when the call ends by timeout the caller gets the timeout
\* error alone: no snapshots are handed over, and the builds of the last tick
\* are out of scope by then.
C7_TimeoutCarriesNothing ==
    (pc = "thrown" /\ thrown = TimeoutReached)
    => /\ result = NoResult
       /\ builds = <<>>

C7_Witness ==
    /\ pc = "thrown"
    /\ thrown = TimeoutReached
    /\ Len(buildIds) >= 1
    /\ \E id \in Ids : remote[id].status # New

-----------------------------------------------------------------------------
(* getArchiveAsync: the steps. Every recursive call is a tail call whose      *)
(* promise is returned without being awaited, so a call is modelled as the   *)
(* replacement of `source` by the new source.                                *)

ArchInit ==
    /\ source \in InitialSources
    /\ initialSource = source
    /\ catalog \in Catalogs
    /\ apc = "call"
    /\ archive = NoArchive
    /\ rejected = NoError
    /\ calls = 0
    /\ prompts = 0
    /\ confirms = 0
    /\ uploads = 0
    /\ fetches = 0
    /\ lastQuery = "none"
    /\ WaitIdle
    /\ PrepIdle

\* getArchiveAsync(src), called from a handler
Recurse(src) ==
    /\ source' = src
    /\ apc' = "call"
    /\ UNCHANGED <<archive, rejected>>

Return(a) ==
    /\ archive' = a
    /\ apc' = "returned"
    /\ UNCHANGED <<source, rejected>>

Throw(err) ==
    /\ rejected' = err
    /\ apc' = "thrown"
    /\ UNCHANGED <<source, archive>>

\* lines 75-96: the switch on source.sourceType
Dispatch(sourceType) ==
    /\ apc = "call"
    /\ calls < MaxCalls
    /\ source.sourceType = sourceType
    /\ calls' = calls + 1

\* (mutant) the confirmation is asked in non-interactive mode too
askIfUseBuildIdFromUrlIgnoresMode(src, answer) == answer

\* lines 440-460; answer is what the user says when asked
askIfUseBuildIdFromUrl(src, answer) ==
    IF ~src.nonInteractive THEN answer ELSE FALSE

\* (mutant) the URL check is inverted
handleUrlSourceInvertedCheck(answer) ==
    /\ Dispatch("url")
    /\ IF validateUrl(source.url)
       THEN Recurse([source EXCEPT !.sourceType = "prompt"])
       ELSE Return([url |-> source.url, build |-> NoBuild, source |-> source])
    /\ UNCHANGED <<initialSource, catalog, prompts, confirms, uploads, fetches,
                   lastQuery>>
    /\ UNCHANGED <<waitVars, prepVars>>

\* lines 98-124
handleUrlSource(answer) ==
    /\ Dispatch("url")
    /\ IF ~validateUrl(source.url)
       THEN /\ Recurse([source EXCEPT !.sourceType = "prompt"])
            /\ UNCHANGED confirms
       ELSE LET maybeBuildId == isBuildDetailsPage(source.url)
            IN IF maybeBuildId # "false"
               THEN /\ confirms' = IF source.nonInteractive THEN confirms
                                   ELSE confirms + 1
                    /\ IF askIfUseBuildIdFromUrl(source, answer)
                       THEN Recurse([source EXCEPT !.sourceType = "buildId",
                                                   !.id = maybeBuildId])
                       ELSE Return([url |-> source.url, build |-> NoBuild,
                                    source |-> source])
               ELSE /\ Return([url |-> source.url, build |-> NoBuild,
                               source |-> source])
                    /\ UNCHANGED confirms
    /\ UNCHANGED <<initialSource, catalog, prompts, uploads, fetches, lastQuery>>
    /\ UNCHANGED <<waitVars, prepVars>>

\* (mutant) a build older than the expiry window is not returned
handleLatestSourceSkipsExpired(fetched) ==
    /\ Dispatch("latest")
    /\ IF fetched
       THEN LET recent == getRecentBuildsForSubmission(
                              toAppPlatform(source.platform), 1)
            IN IF recent = <<>> \/ IsExpired(recent[1])
               THEN Recurse([source EXCEPT !.sourceType = "prompt"])
               ELSE Return([url |-> NoUrl, build |-> recent[1],
                            source |-> source])
       ELSE Throw(RecentBuildsError)
    /\ fetches' = fetches + 1
    /\ lastQuery' = IF fetched THEN "resolved" ELSE "failed"
    /\ UNCHANGED <<initialSource, catalog, prompts, confirms, uploads>>
    /\ UNCHANGED <<waitVars, prepVars>>

\* lines 126-153; fetched: whether the query for the recent builds succeeds
handleLatestSource(fetched) ==
    /\ Dispatch("latest")
    /\ IF fetched
       THEN LET recent == getRecentBuildsForSubmission(
                              toAppPlatform(source.platform), 1)
            IN IF recent = <<>>
               THEN Recurse([source EXCEPT !.sourceType = "prompt"])
               ELSE Return([url |-> NoUrl, build |-> recent[1],
                            source |-> source])
       ELSE Throw(RecentBuildsError)
    /\ fetches' = fetches + 1
    /\ lastQuery' = IF fetched THEN "resolved" ELSE "failed"
    /\ UNCHANGED <<initialSource, catalog, prompts, confirms, uploads>>
    /\ UNCHANGED <<waitVars, prepVars>>

\* (mutant) the path is uploaded without the test that the file exists
handlePathSourceUploadsUnchecked(uploaded) ==
    /\ Dispatch("path")
    /\ uploads' = uploads + 1
    /\ IF uploaded
       THEN Return([url |-> uploadUrl(source.path), build |-> NoBuild,
                    source |-> source])
       ELSE Throw(UploadError)
    /\ UNCHANGED <<initialSource, catalog, prompts, confirms, fetches, lastQuery>>
    /\ UNCHANGED <<waitVars, prepVars>>

\* (mutant) an existing file is not uploaded, the user is asked again
handlePathSourceAsksAgain(uploaded) ==
    /\ Dispatch("path")
    /\ Recurse([source EXCEPT !.sourceType = "prompt"])
    /\ UNCHANGED <<initialSource, catalog, prompts, confirms, uploads, fetches,
                   lastQuery>>
    /\ UNCHANGED <<waitVars, prepVars>>

\* lines 155-170; uploaded: whether the upload succeeds
handlePathSource(uploaded) ==
    /\ Dispatch("path")
    /\ IF ~isExistingFile(source.path)
       THEN /\ Recurse([source EXCEPT !.sourceType = "prompt"])
            /\ UNCHANGED uploads
       ELSE /\ uploads' = uploads + 1
            /\ IF uploaded
               THEN Return([url |-> uploadUrl(source.path), build |-> NoBuild,
                            source |-> source])
               ELSE Throw(UploadError)
    /\ UNCHANGED <<initialSource, catalog, prompts, confirms, fetches, lastQuery>>
    /\ UNCHANGED <<waitVars, prepVars>>

\* (mutant) a failed lookup is logged and thrown again, as in the other handlers
handleBuildIdSourceRethrows(fetched) ==
    /\ Dispatch("buildId")
    /\ IF fetched /\ BuildsById(source.id) # {}
       THEN LET build == CHOOSE b \in BuildsById(source.id) : TRUE
            IN IF build.platform # toAppPlatform(source.platform)
               THEN Recurse([source EXCEPT !.sourceType = "prompt"])
               ELSE Return([url |-> NoUrl, build |-> build, source |-> source])
       ELSE Throw("BuildQuery.byIdAsync failed")
    /\ fetches' = fetches + 1
    /\ lastQuery' = IF fetched /\ BuildsById(source.id) # {}
                    THEN "resolved" ELSE "failed"
    /\ UNCHANGED <<initialSource, catalog, prompts, confirms, uploads>>
    /\ UNCHANGED <<waitVars, prepVars>>

\* (mutant) the Archive names the source the command started from
handleBuildIdSourceNamesFirstSource(fetched) ==
    /\ Dispatch("buildId")
    /\ IF fetched /\ BuildsById(source.id) # {}
       THEN LET build == CHOOSE b \in BuildsById(source.id) : TRUE
            IN IF build.platform # toAppPlatform(source.platform)
               THEN Recurse([source EXCEPT !.sourceType = "prompt"])
               ELSE Return([url |-> NoUrl, build |-> build,
                            source |-> initialSource])
       ELSE Recurse([source EXCEPT !.sourceType = "prompt"])
    /\ fetches' = fetches + 1
    /\ lastQuery' = IF fetched /\ BuildsById(source.id) # {}
                    THEN "resolved" ELSE "failed"
    /\ UNCHANGED <<initialSource, catalog, prompts, confirms, uploads>>
    /\ UNCHANGED <<waitVars, prepVars>>

\* (mutant) the build is returned whatever its platform
handleBuildIdSourceAnyPlatform(fetched) ==
    /\ Dispatch("buildId")
    /\ IF fetched /\ BuildsById(source.id) # {}
       THEN LET build == CHOOSE b \in BuildsById(source.id) : TRUE
            IN Return([url |-> NoUrl, build |-> build, source |-> source])
       ELSE Recurse([source EXCEPT !.sourceType = "prompt"])
    /\ fetches' = fetches + 1
    /\ lastQuery' = IF fetched /\ BuildsById(source.id) # {}
                    THEN "resolved" ELSE "failed"
    /\ UNCHANGED <<initialSource, catalog, prompts, confirms, uploads>>
    /\ UNCHANGED <<waitVars, prepVars>>

\* lines 172-210; fetched: whether the query succeeds (it fails for an id that
\* is not on the service)
handleBuildIdSource(fetched) ==
    /\ Dispatch("buildId")
    /\ IF fetched /\ BuildsById(source.id) # {}
       THEN LET build == CHOOSE b \in BuildsById(source.id) : TRUE
            IN IF build.platform # toAppPlatform(source.platform)
               THEN Recurse([source EXCEPT !.sourceType = "prompt"])
               ELSE Return([url |-> NoUrl, build |-> build, source |-> source])
       ELSE Recurse([source EXCEPT !.sourceType = "prompt"])
    /\ fetches' = fetches + 1
    /\ lastQuery' = IF fetched /\ BuildsById(source.id) # {}
                    THEN "resolved" ELSE "failed"
    /\ UNCHANGED <<initialSource, catalog, prompts, confirms, uploads>>
    /\ UNCHANGED <<waitVars, prepVars>>

\* promptAsync of type select (prompts.ts): the choices the user can submit;
\* a disabled choice is shown with the warning and can still be submitted
promptSelect(choices) == DOMAIN choices

\* (mutant) a build updated exactly at the expiry date counts as expired
formatBuildChoiceInclusive(build) ==
    [value |-> build, disabled |-> build.age >= ExpiryDays]

\* lines 280-322: the choice made of a build
formatBuildChoice(build) == [value |-> build, disabled |-> IsExpired(build)]

\* lines 248-252: the choices of the select prompt
BuildChoices(recentBuilds) ==
    [i \in 1..Len(recentBuilds) |-> formatBuildChoice(recentBuilds[i])]
    \o <<[value |-> NoBuild, disabled |-> FALSE]>>

\* (mutant) the list is shown although every build of it has expired
handleBuildListSourceShowsExpired(fetched, pick) ==
    /\ Dispatch("buildList")
    /\ IF fetched
       THEN LET recentBuilds == getRecentBuildsForSubmission(
                                    toAppPlatform(source.platform),
                                    BUILD_LIST_ITEM_COUNT)
                choices == BuildChoices(recentBuilds)
            IN IF Len(recentBuilds) < 1
               THEN /\ Recurse([source EXCEPT !.sourceType = "prompt"])
                    /\ UNCHANGED prompts
               ELSE /\ pick \in promptSelect(choices)
                    /\ prompts' = prompts + 1
                    /\ IF choices[pick].value = NoBuild
                       THEN Recurse([source EXCEPT !.sourceType = "prompt"])
                       ELSE Return([url |-> NoUrl,
                                    build |-> choices[pick].value,
                                    source |-> source])
       ELSE /\ Throw(RecentBuildsError)
            /\ UNCHANGED prompts
    /\ fetches' = fetches + 1
    /\ lastQuery' = IF fetched THEN "resolved" ELSE "failed"
    /\ UNCHANGED <<initialSource, catalog, confirms, uploads>>
    /\ UNCHANGED <<waitVars, prepVars>>

\* (mutant) the selected value is returned without the null check
handleBuildListSourceNoNullCheck(fetched, pick) ==
    /\ Dispatch("buildList")
    /\ IF fetched
       THEN LET recentBuilds == getRecentBuildsForSubmission(
                                    toAppPlatform(source.platform),
                                    BUILD_LIST_ITEM_COUNT)
                choices == BuildChoices(recentBuilds)
            IN IF Len(recentBuilds) < 1
               THEN /\ Recurse([source EXCEPT !.sourceType = "prompt"])
                    /\ UNCHANGED prompts
               ELSE IF \A i \in DOMAIN recentBuilds : IsExpired(recentBuilds[i])
                    THEN /\ Recurse([source EXCEPT !.sourceType = "prompt"])
                         /\ UNCHANGED prompts
                    ELSE /\ pick \in promptSelect(choices)
                         /\ prompts' = prompts + 1
                         /\ Return([url |-> NoUrl, build |-> choices[pick].value,
                                    source |-> source])
       ELSE /\ Throw(RecentBuildsError)
            /\ UNCHANGED prompts
    /\ fetches' = fetches + 1
    /\ lastQuery' = IF fetched THEN "resolved" ELSE "failed"
    /\ UNCHANGED <<initialSource, catalog, confirms, uploads>>
    /\ UNCHANGED <<waitVars, prepVars>>

\* lines 212-278; fetched: whether the query for the recent builds succeeds;
\* pick: the choice the user selects
handleBuildListSource(fetched, pick) ==
    /\ Dispatch("buildList")
    /\ IF fetched
       THEN LET recentBuilds == getRecentBuildsForSubmission(
                                    toAppPlatform(source.platform),
                                    BUILD_LIST_ITEM_COUNT)
                choices == BuildChoices(recentBuilds)
            IN IF Len(recentBuilds) < 1
               THEN /\ Recurse([source EXCEPT !.sourceType = "prompt"])
                    /\ UNCHANGED prompts
               ELSE IF \A i \in DOMAIN recentBuilds : IsExpired(recentBuilds[i])
                    THEN /\ Recurse([source EXCEPT !.sourceType = "prompt"])
                         /\ UNCHANGED prompts
                    ELSE /\ pick \in promptSelect(choices)
                         /\ prompts' = prompts + 1
                         /\ IF choices[pick].value = NoBuild
                            THEN Recurse([source EXCEPT !.sourceType = "prompt"])
                            ELSE Return([url |-> NoUrl,
                                         build |-> choices[pick].value,
                                         source |-> source])
       ELSE /\ Throw(RecentBuildsError)
            /\ UNCHANGED prompts
    /\ fetches' = fetches + 1
    /\ lastQuery' = IF fetched THEN "resolved" ELSE "failed"
    /\ UNCHANGED <<initialSource, catalog, confirms, uploads>>
    /\ UNCHANGED <<waitVars, prepVars>>

\* lines 382-400: the URLs the prompt's validation lets through
askForArchiveUrl == {url \in UrlStrings : url # defaultArchiveUrl /\ validateUrl(url)}

\* lines 402-422
askForArchivePath == {path \in PathStrings : isExistingFile(path)}

\* lines 424-438
askForBuildId == {id \in BuildIdStrings : isUuidV4(id)}

\* (mutant) the first choice of the prompt submits the latest build
handlePromptSourceOffersLatest(sourceType, value) ==
    /\ Dispatch("prompt")
    /\ CASE sourceType = "url" ->
              /\ value \in askForArchiveUrl
              /\ prompts' = prompts + 2
              /\ Recurse([source EXCEPT !.sourceType = "url", !.url = value])
         [] sourceType = "path" ->
              /\ value \in askForArchivePath
              /\ prompts' = prompts + 2
              /\ Recurse([source EXCEPT !.sourceType = "path", !.path = value])
         [] sourceType = "buildList" ->
              /\ value = ""
              /\ prompts' = prompts + 1
              /\ Recurse([source EXCEPT !.sourceType = "latest"])
         [] sourceType = "buildId" ->
              /\ value \in askForBuildId
              /\ prompts' = prompts + 2
              /\ Recurse([source EXCEPT !.sourceType = "buildId", !.id = value])
    /\ UNCHANGED <<initialSource, catalog, confirms, uploads, fetches, lastQuery>>
    /\ UNCHANGED <<waitVars, prepVars>>

\* (mutant) a source made at the prompt is an interactive one
handlePromptSourceDropsMode(sourceType, value) ==
    /\ Dispatch("prompt")
    /\ CASE sourceType = "url" ->
              /\ value \in askForArchiveUrl
              /\ prompts' = prompts + 2
              /\ Recurse([source EXCEPT !.sourceType = "url", !.url = value,
                                        !.nonInteractive = FALSE])
         [] sourceType = "path" ->
              /\ value \in askForArchivePath
              /\ prompts' = prompts + 2
              /\ Recurse([source EXCEPT !.sourceType = "path", !.path = value,
                                        !.nonInteractive = FALSE])
         [] sourceType = "buildList" ->
              /\ value = ""
              /\ prompts' = prompts + 1
              /\ Recurse([source EXCEPT !.sourceType = "buildList",
                                        !.nonInteractive = FALSE])
         [] sourceType = "buildId" ->
              /\ value \in askForBuildId
              /\ prompts' = prompts + 2
              /\ Recurse([source EXCEPT !.sourceType = "buildId", !.id = value,
                                        !.nonInteractive = FALSE])
    /\ UNCHANGED <<initialSource, catalog, confirms, uploads, fetches, lastQuery>>
    /\ UNCHANGED <<waitVars, prepVars>>

\* lines 324-380; sourceType: the user's choice, value: the user's input
handlePromptSource(sourceType, value) ==
    /\ Dispatch("prompt")
    /\ CASE sourceType = "url" ->
              /\ value \in askForArchiveUrl
              /\ prompts' = prompts + 2
              /\ Recurse([source EXCEPT !.sourceType = "url", !.url = value])
         [] sourceType = "path" ->
              /\ value \in askForArchivePath
              /\ prompts' = prompts + 2
              /\ Recurse([source EXCEPT !.sourceType = "path", !.path = value])
         [] sourceType = "buildList" ->
              /\ value = ""
              /\ prompts' = prompts + 1
              /\ Recurse([source EXCEPT !.sourceType = "buildList"])
         [] sourceType = "buildId" ->
              /\ value \in askForBuildId
              /\ prompts' = prompts + 2
              /\ Recurse([source EXCEPT !.sourceType = "buildId", !.id = value])
    /\ UNCHANGED <<initialSource, catalog, confirms, uploads, fetches, lastQuery>>
    /\ UNCHANGED <<waitVars, prepVars>>

PromptInputs == UrlStrings \cup PathStrings \cup BuildIdStrings \cup {""}

ArchNext ==
    \/ \E answer \in BOOLEAN : handleUrlSource(answer)
    \/ \E fetched \in BOOLEAN : handleLatestSource(fetched)
    \/ \E uploaded \in BOOLEAN : handlePathSource(uploaded)
    \/ \E fetched \in BOOLEAN : handleBuildIdSource(fetched)
    \/ \E fetched \in BOOLEAN : \E pick \in 1..(BUILD_LIST_ITEM_COUNT + 1) :
          handleBuildListSource(fetched, pick)
    \/ \E sourceType \in {"buildList", "url", "path", "buildId"} :
          \E value \in PromptInputs : handlePromptSource(sourceType, value)

SpecArchive == ArchInit /\ [][ArchNext]_vars

\* the selected choice of the list is a build, not "None of the above"
PicksBuild(pick) ==
    LET recentBuilds == getRecentBuildsForSubmission(
                            toAppPlatform(source.platform), BUILD_LIST_ITEM_COUNT)
    IN Len(recentBuilds) = 0 \/ pick <= Len(recentBuilds)

\* getArchiveAsync when the references resolve: the queries and the upload
\* succeed and the user selects a build of the list
ArchNextResolving ==
    \/ \E answer \in BOOLEAN : handleUrlSource(answer)
    \/ handleLatestSource(TRUE)
    \/ handlePathSource(TRUE)
    \/ handleBuildIdSource(TRUE)
    \/ \E pick \in 1..BUILD_LIST_ITEM_COUNT :
          /\ source.sourceType = "buildList"
          /\ PicksBuild(pick)
          /\ handleBuildListSource(TRUE, pick)
    \/ \E sourceType \in {"buildList", "url", "path", "buildId"} :
          \E value \in PromptInputs : handlePromptSource(sourceType, value)

\* every awaited call of getArchiveAsync ends: a due call is made
SpecArchiveLive ==
    ArchInit /\ [][ArchNextResolving]_vars /\ WF_vars(ArchNextResolving)

-----------------------------------------------------------------------------
(* getArchiveAsync: properties *)

FallsBackToPrompt == apc' = "call" /\ source'.sourceType = "prompt"

NoBuildOfPlatform(src) ==
    \A b \in BuildsById(src.id) : b.platform # toAppPlatform(src.platform)

\* C8 (as claimed): with nonInteractive true, a branch that would recurse into
\* the prompt variant fails with a non-interactive-mode error instead, and no
\* prompt is issued.
C8_NonInteractiveFailsInsteadOfPrompting ==
    (apc # "idle" /\ source.nonInteractive /\ initialSource.sourceType # "prompt")
    => /\ prompts = 0
       /\ source.sourceType = "prompt" =>
             (apc = "thrown" /\ rejected = "non-interactive mode")

\* C9 (as claimed): with nonInteractive false, getArchiveAsync never rejects
\* because of a failure inside a branch.
C9_InteractiveNeverRejects ==
    (apc # "idle" /\ ~source.nonInteractive) => apc # "thrown"

\* C9 (amended): with nonInteractive false, an invalid URL, a missing file, a
\* failed lookup by id and a platform mismatch lead to a call with the prompt
\* variant, and so does a catalog with no build (latest, buildList) or only
\* expired builds (buildList) of the platform unless the fetch fails; a failed
\* fetch of the recent builds (latest, buildList) and a failed upload of an
\* existing file (path) reject the call, and no other failure of a branch does.
C9_FailuresFallBackOrPropagate ==
    [][ (apc = "call" /\ ~source.nonInteractive) =>
          /\ (source.sourceType = "url" /\ ~validateUrl(source.url))
                => FallsBackToPrompt
          /\ (source.sourceType = "path" /\ ~isExistingFile(source.path))
                => FallsBackToPrompt
          /\ (source.sourceType = "buildId" /\ NoBuildOfPlatform(source))
                => FallsBackToPrompt
          /\ ( /\ source.sourceType \in {"latest", "buildList"}
               /\ SelectPlatform(catalog, toAppPlatform(source.platform)) = <<>> )
                => (FallsBackToPrompt \/ apc' = "thrown")
          /\ ( /\ source.sourceType = "buildList"
               /\ \A i \in DOMAIN catalog :
                     catalog[i].platform = toAppPlatform(source.platform)
                        => IsExpired(catalog[i]) )
                => (FallsBackToPrompt \/ apc' = "thrown")
          /\ apc' = "thrown" =>
                \/ /\ rejected' = RecentBuildsError
                   /\ source.sourceType \in {"latest", "buildList"}
                \/ /\ rejected' = UploadError
                   /\ source.sourceType = "path"
                   /\ isExistingFile(source.path)
      ]_vars

\* an id that is not on the service led to the prompt, the user gave a path,
\* and the upload failed
C9_Witness ==
    /\ apc = "thrown"
    /\ ~source.nonInteractive
    /\ initialSource.sourceType = "buildId"
    /\ rejected = UploadError

\* C10: every Archive that getArchiveAsync returns has exactly one of url and
\* build set.
C10_ExactlyOneOfUrlAndBuild ==
    apc = "returned" => ((archive.url # NoUrl) # (archive.build # NoBuild))

\* a build picked from the list after the given URL was found invalid
C10_Witness ==
    /\ apc = "returned"
    /\ initialSource.sourceType = "url"
    /\ archive.source.sourceType = "buildList"
    /\ archive.build # NoBuild
    /\ archive.url = NoUrl

\* C11: an explicit URL that is valid http(s) and no build details page is
\* resolved in one call to the Archive with that URL, with no prompt, no
\* confirmation, no query of the service and no upload; the Archive is a
\* function of the source alone, so resolving it again gives an equal Archive.
PlainUrlSource(src) ==
    /\ src.sourceType = "url"
    /\ validateUrl(src.url)
    /\ isBuildDetailsPage(src.url) = "false"

C11_PlainUrlResolvesToItself ==
    (apc # "idle" /\ PlainUrlSource(initialSource) /\ calls >= 1)
    => /\ apc = "returned"
       /\ calls = 1
       /\ archive.url = initialSource.url
       /\ archive.build = NoBuild
       /\ archive.source = initialSource
       /\ prompts = 0
       /\ confirms = 0
       /\ fetches = 0
       /\ uploads = 0

C11_Witness ==
    /\ apc = "returned"
    /\ PlainUrlSource(initialSource)
    /\ UrlProtocol(initialSource.url) = "http:"
    /\ archive.url = initialSource.url

\* C12: an explicit, valid URL of a build details page with a version-4 id.
\* Interactive: the call asks exactly one confirmation; declined, it returns
\* the Archive with the literal URL; confirmed, it calls getArchiveAsync with
\* the buildId variant and the id of the URL, which (when the query finds the
\* build and its platform is the requested one) returns the Archive with that
\* build. Non-interactive: no confirmation, the Archive with the literal URL.
DetailsUrlSource(src) ==
    /\ src.sourceType = "url"
    /\ validateUrl(src.url)
    /\ isBuildDetailsPage(src.url) # "false"

ReturnedLiteralUrl ==
    /\ apc = "returned"
    /\ archive.url = initialSource.url
    /\ archive.build = NoBuild
    /\ archive.source = initialSource

ContinuedAsBuildId ==
    /\ apc = "call"
    /\ source = [initialSource EXCEPT !.sourceType = "buildId",
                                      !.id = isBuildDetailsPage(initialSource.url)]

-----------------------------------------------------------------------------
(* prepareBuildRequestForPlatformAsync, uploadProjectAsync and the sender    *)
(* (build/build.ts, lines 48-210)                                            *)

MaxSends == 2     \* invocations of the returned sender

\* builder.ctx: the fields lines 48-139 read
BuildContext ==
    [platform : Platform,
     localBuild : BOOLEAN,                  \* ctx.localBuildOptions.enable
     skipProjectConfiguration : BOOLEAN,
     withoutCredentials : BOOLEAN]          \* ctx.buildProfile.withoutCredentials

\* (mutant) the credentials are provided whatever the build profile says
shouldProvideCredentialsAlways(c) == TRUE

\* build/android/build.ts, lines 103-105
shouldProvideCredentials(c) == ~c.withoutCredentials

\* (mutant) local-build mode is never taken
usesLocalBuildNever(c) == FALSE

\* ctx.localBuildOptions.enable, read at lines 80 and 97
usesLocalBuild(c) == c.localBuild

Undefined == "undefined"

TarballPath == "project.tar.gz"

NoProjectArchive == [type |-> "", path |-> "", bucketKey |-> ""]

\* lines 81-84
PathArchive(path) == [type |-> "PATH", path |-> path, bucketKey |-> ""]

\* lines 85-88
S3Archive(bucketKey) == [type |-> "S3", path |-> "", bucketKey |-> bucketKey]

NoJob == [platform |-> "", projectArchive |-> NoProjectArchive, credentials |-> ""]

\* the errors the collaborators of the prepare steps throw
CredentialsError == "credentials error"
ConfigurationError == "project configuration error"
CommitRequiredError == "isCommitRequired error"
CommitReviewError == "commit review error"
TarballError == "tarball error"
UploadFailed == "upload error"
MetadataError == "metadata error"
PrepareJobError == "prepare job error"

\* the error codes of lines 104, 108, 115 and 122
KnownErrorCodes ==
    {"TURTLE_DEPRECATED_JOB_FORMAT", "EAS_BUILD_DOWN_FOR_MAINTENANCE",
     "EAS_BUILD_FREE_TIER_DISABLED", "EAS_BUILD_TOO_MANY_PENDING_BUILDS"}

OtherErrorCode == "SOME_OTHER_CODE"

NoSendError == [message |-> "", graphQL |-> FALSE, errorCodes |-> <<>>]

\* an error with graphQLErrors, one extensions.errorCode for each
GraphQLError(codes) ==
    [message |-> "GraphQL error", graphQL |-> TRUE, errorCodes |-> codes]

\* an error without graphQLErrors
NetworkError == [message |-> "network error", graphQL |-> FALSE, errorCodes |-> <<>>]

LocalBuildFailed ==
    [message |-> "local build failed", graphQL |-> FALSE, errorCodes |-> <<>>]

\* new Error('Build request failed.'), lines 106, 113, 120 and 129
BuildRequestFailed ==
    [message |-> "Build request failed.", graphQL |-> FALSE, errorCodes |-> <<>>]

\* what builder.sendBuildRequestAsync can reject with
ServiceErrors ==
    {GraphQLError(<<c>>) : c \in KnownErrorCodes \cup {OtherErrorCode}}
        \cup {GraphQLError(<<>>),
              GraphQLError(<<OtherErrorCode, "EAS_BUILD_DOWN_FOR_MAINTENANCE">>),
              NetworkError}

BuildCreated == "build"

\* what a collaborator called by the sender answers
Created == [ok |-> TRUE, build |-> BuildCreated, error |-> NoSendError]

Failed(error) == [ok |-> FALSE, build |-> "", error |-> error]

\* runLocalBuildAsync in local-build mode, builder.sendBuildRequestAsync otherwise
Responses(c) ==
    IF c.localBuild
    THEN {Created, Failed(LocalBuildFailed)}
    ELSE {Created} \cup {Failed(e) : e \in ServiceErrors}

\* error?.graphQLErrors?.[0]?.extensions?.errorCode
errorCode(error) ==
    IF error.graphQL /\ error.errorCodes # <<>>
    THEN error.errorCodes[1]
    ELSE Undefined

\* requestedPlatformDisplayNames (platform.ts)
requestedPlatformDisplayNames(platform) ==
    IF platform = "android" THEN "Android" ELSE "iOS"

DeprecatedJobFormatMessage ==
    "EAS Build API has changed, please upgrade to the latest eas-cli version."

MaintenanceMessage ==
    "EAS Build is down for maintenance, please try again later. Check https://status.expo.dev/ for updates."

FreeTierDisabledMessage ==
    "EAS Build free tier is temporarily disabled, please try again later. Check https://status.expo.dev/ for updates."

TooManyPendingBuildsMessage(platform) ==
    IF requestedPlatformDisplayNames(platform) = "Android"
    THEN "You have already reached the maximum number of pending Android builds for your account. Try again later."
    ELSE "You have already reached the maximum number of pending iOS builds for your account. Try again later."

GenericRejectionMessage ==
    "Build request failed. Make sure you are using the latest eas-cli version. If the problem persists, please report the issue."

\* (mutant) every rejection gets the generic message
ErrorMessagesAlwaysGeneric(error, platform) ==
    IF error.graphQL THEN <<GenericRejectionMessage>> ELSE <<>>

\* lines 103-134: the messages the catch block gives to Log.error
ErrorMessages(error, platform) ==
    CASE errorCode(error) = "TURTLE_DEPRECATED_JOB_FORMAT" ->
            <<DeprecatedJobFormatMessage>>
      [] errorCode(error) = "EAS_BUILD_DOWN_FOR_MAINTENANCE" ->
            <<MaintenanceMessage>>
      [] errorCode(error) = "EAS_BUILD_FREE_TIER_DISABLED" ->
            <<FreeTierDisabledMessage>>
      [] errorCode(error) = "EAS_BUILD_TOO_MANY_PENDING_BUILDS" ->
            <<TooManyPendingBuildsMessage(platform)>>
      [] OTHER -> IF error.graphQL THEN <<GenericRejectionMessage>> ELSE <<>>

\* (mutant) the error of the service is thrown again whatever its code
RethrownAsReceived(error) == error

\* lines 103-135: the error the catch block throws
Rethrown(error) ==
    IF errorCode(error) \in KnownErrorCodes THEN BuildRequestFailed ELSE error

\* (mutant) metadata is collected before the project archive is made
AfterMetadataFirst(pos) ==
    CASE pos = "credentials" -> "configure"
      [] pos = "configure" -> "commit"
      [] pos = "commit" -> "metadata"
      [] pos = "metadata" -> "archive"
      [] pos = "archive" -> "job"
      [] pos = "job" -> "prepared"

\* lines 54-96: the statement that follows each statement
After(pos) ==
    CASE pos = "credentials" -> "configure"
      [] pos = "configure" -> "commit"
      [] pos = "commit" -> "archive"
      [] pos = "archive" -> "metadata"
      [] pos = "metadata" -> "job"
      [] pos = "job" -> "prepared"

PrepInit ==
    /\ ctx \in BuildContext
    /\ ppc = "credentials"
    /\ steps = <<>>
    /\ credentialsResult = "none"
    /\ projectArchive = NoProjectArchive
    /\ job = NoJob
    /\ disk = {}
    /\ prepThrown = NoError
    /\ spc = "idle"
    /\ invocations = 0
    /\ requests = 0
    /\ responses = <<>>
    /\ logged = <<>>
    /\ senderResult = "none"
    /\ senderThrown = NoSendError
    /\ WaitIdle
    /\ ArchIdle

senderVars == <<spc, invocations, requests, responses, logged, senderResult,
                senderThrown>>

\* the awaited call resolved: the next statement is due
PrepContinue ==
    /\ ppc' = After(ppc)
    /\ UNCHANGED prepThrown

\* (mutant) the error is recorded and the next statement runs all the same
PrepThrowContinues(err) ==
    /\ ppc' = After(ppc)
    /\ prepThrown' = err

\* the awaited call rejected: prepareBuildRequestForPlatformAsync rejects
PrepThrow(err) ==
    /\ ppc' = "thrown"
    /\ prepThrown' = err

\* lines 54-62, with the builder of build/android/build.ts, lines 107-134
ensureCredentials(ok) ==
    /\ ppc = "credentials"
    /\ steps' = Append(steps, "ensureCredentials")
    /\ IF ~shouldProvideCredentials(ctx)
       THEN /\ ok
            /\ credentialsResult' = Undefined
            /\ PrepContinue
       ELSE IF ok
            THEN /\ credentialsResult' = "credentials"
                 /\ PrepContinue
            ELSE /\ PrepThrow(CredentialsError)
                 /\ UNCHANGED credentialsResult
    /\ UNCHANGED <<ctx, projectArchive, job, disk, senderVars>>
    /\ UNCHANGED <<waitVars, archVars>>

\* lines 63-70
ensureProjectConfigured(ok) ==
    /\ ppc = "configure"
    /\ IF ~ctx.skipProjectConfiguration
       THEN /\ steps' = Append(steps, "ensureProjectConfigured")
            /\ IF ok THEN PrepContinue ELSE PrepThrow(ConfigurationError)
       ELSE /\ ok
            /\ UNCHANGED steps
            /\ PrepContinue
    /\ UNCHANGED <<ctx, credentialsResult, projectArchive, job, disk, senderVars>>
    /\ UNCHANGED <<waitVars, archVars>>

\* lines 72-78; required: what isCommitRequiredAsync answers
reviewAndCommitChanges(required, ok) ==
    /\ ppc = "commit"
    /\ IF required
       THEN /\ steps' = steps \o <<"isCommitRequired", "reviewAndCommitChanges">>
            /\ IF ok THEN PrepContinue ELSE PrepThrow(CommitReviewError)
       ELSE /\ steps' = Append(steps, "isCommitRequired")
            /\ IF ok THEN PrepContinue ELSE PrepThrow(CommitRequiredError)
    /\ UNCHANGED <<ctx, credentialsResult, projectArchive, job, disk, senderVars>>
    /\ UNCHANGED <<waitVars, archVars>>

\* (mutant) the tarball is removed after a successful upload only
uploadProjectNoFinally(tarballOk, uploadOk) ==
    IF ~tarballOk
    THEN /\ steps' = Append(steps, "makeProjectTarball")
         /\ PrepThrow(TarballError)
         /\ UNCHANGED <<disk, projectArchive>>
    ELSE IF uploadOk
         THEN /\ steps' = steps \o <<"makeProjectTarball", "uploadAsync", "fs.remove">>
              /\ disk' = (disk \cup {TarballPath}) \ {TarballPath}
              /\ projectArchive' = S3Archive("bucket-key")
              /\ PrepContinue
         ELSE /\ steps' = steps \o <<"makeProjectTarball", "uploadAsync">>
              /\ disk' = disk \cup {TarballPath}
              /\ PrepThrow(UploadFailed)
              /\ UNCHANGED projectArchive

\* lines 141-180: the try block and the finally block
uploadProject(tarballOk, uploadOk) ==
    IF ~tarballOk
    THEN \* makeProjectTarballAsync rejects, projectTarballPath is not set
         /\ steps' = Append(steps, "makeProjectTarball")
         /\ PrepThrow(TarballError)
         /\ UNCHANGED <<disk, projectArchive>>
    ELSE LET projectTarballPath == TarballPath
             created == disk \cup {projectTarballPath}
         IN /\ steps' = steps \o <<"makeProjectTarball", "uploadAsync", "fs.remove">>
            /\ disk' = created \ {projectTarballPath}
            /\ IF uploadOk
               THEN /\ projectArchive' = S3Archive("bucket-key")
                    /\ PrepContinue
               ELSE /\ PrepThrow(UploadFailed)
                    /\ UNCHANGED projectArchive

\* lines 80-88
makeProjectArchive(tarballOk, uploadOk) ==
    /\ ppc = "archive"
    /\ IF usesLocalBuild(ctx)
       THEN /\ uploadOk
            /\ steps' = Append(steps, "makeProjectTarball")
            /\ IF tarballOk
               THEN /\ disk' = disk \cup {TarballPath}
                    /\ projectArchive' = PathArchive(TarballPath)
                    /\ PrepContinue
               ELSE /\ PrepThrow(TarballError)
                    /\ UNCHANGED <<disk, projectArchive>>
       ELSE uploadProject(tarballOk, uploadOk)
    /\ UNCHANGED <<ctx, credentialsResult, job, senderVars>>
    /\ UNCHANGED <<waitVars, archVars>>

\* line 90
collectMetadata(ok) ==
    /\ ppc = "metadata"
    /\ steps' = Append(steps, "collectMetadata")
    /\ IF ok THEN PrepContinue ELSE PrepThrow(MetadataError)
    /\ UNCHANGED <<ctx, credentialsResult, projectArchive, job, disk, senderVars>>
    /\ UNCHANGED <<waitVars, archVars>>

\* lines 91-96: the job is made and the sender is returned
prepareJob(ok) ==
    /\ ppc = "job"
    /\ steps' = Append(steps, "prepareJob")
    /\ IF ok
       THEN /\ job' = [platform |-> ctx.platform,
                       projectArchive |-> projectArchive,
                       credentials |-> credentialsResult]
            /\ PrepContinue
       ELSE /\ PrepThrow(PrepareJobError)
            /\ UNCHANGED job
    /\ UNCHANGED <<ctx, credentialsResult, projectArchive, disk, senderVars>>
    /\ UNCHANGED <<waitVars, archVars>>

\* (mutant) a rejected request is sent once more
sendBuildRequestResends(resp) ==
    /\ requests' = requests + (IF resp.ok THEN 1 ELSE 2)
    /\ responses' = Append(responses, resp)
    /\ steps' = Append(steps, "sendBuildRequest")

\* (mutant) the metadata is collected again for every request
sendBuildRequestCollectsAgain(resp) ==
    /\ requests' = requests + 1
    /\ responses' = Append(responses, resp)
    /\ steps' = steps \o <<"collectMetadata", "sendBuildRequest">>

\* lines 182-210: one call of builder.sendBuildRequestAsync
sendBuildRequest(resp) ==
    /\ requests' = requests + 1
    /\ responses' = Append(responses, resp)
    /\ steps' = Append(steps, "sendBuildRequest")

\* lines 96-138: one invocation of the returned sender
sender(resp) ==
    /\ ppc = "prepared"
    /\ invocations < MaxSends
    /\ resp \in Responses(ctx)
    /\ invocations' = invocations + 1
    /\ IF usesLocalBuild(ctx)
       THEN /\ steps' = Append(steps, "runLocalBuild")
            /\ IF resp.ok
               THEN /\ senderResult' = Undefined
                    /\ senderThrown' = NoSendError
                    /\ spc' = "returned"
               ELSE /\ senderResult' = "none"
                    /\ senderThrown' = resp.error
                    /\ spc' = "thrown"
            /\ UNCHANGED <<requests, responses, logged>>
       ELSE /\ sendBuildRequest(resp)
            /\ IF resp.ok
               THEN /\ senderResult' = resp.build
                    /\ senderThrown' = NoSendError
                    /\ spc' = "returned"
                    /\ UNCHANGED logged
               ELSE /\ logged' = logged \o ErrorMessages(resp.error, job.platform)
                    /\ senderResult' = "none"
                    /\ senderThrown' = Rethrown(resp.error)
                    /\ spc' = "thrown"
    /\ UNCHANGED <<ctx, ppc, credentialsResult, projectArchive, job, disk,
                   prepThrown>>
    /\ UNCHANGED <<waitVars, archVars>>

PrepNext ==
    \/ \E ok \in BOOLEAN : ensureCredentials(ok)
    \/ \E ok \in BOOLEAN : ensureProjectConfigured(ok)
    \/ \E required, ok \in BOOLEAN : reviewAndCommitChanges(required, ok)
    \/ \E tarballOk, uploadOk \in BOOLEAN : makeProjectArchive(tarballOk, uploadOk)
    \/ \E ok \in BOOLEAN : collectMetadata(ok)
    \/ \E ok \in BOOLEAN : prepareJob(ok)
    \/ \E resp \in {Created} \cup {Failed(e) : e \in ServiceErrors \cup {LocalBuildFailed}} :
          sender(resp)

SpecPrepare == PrepInit /\ [][PrepNext]_vars

-----------------------------------------------------------------------------
(* Properties of the preparation and the dispatch *)

StepsDone == {steps[i] : i \in DOMAIN steps}

\* the place of each collaborator in the order of lines 54-102
Rank(step) ==
    CASE step = "ensureCredentials" -> 1
      [] step = "ensureProjectConfigured" -> 2
      [] step = "isCommitRequired" -> 3
      [] step = "reviewAndCommitChanges" -> 4
      [] step = "makeProjectTarball" -> 5
      [] step = "uploadAsync" -> 6
      [] step = "fs.remove" -> 7
      [] step = "collectMetadata" -> 8
      [] step = "prepareJob" -> 9
      [] OTHER -> 10

\* every prepare step the options ask for has been performed
AllPrepared ==
    /\ {"ensureCredentials", "isCommitRequired", "makeProjectTarball",
        "collectMetadata", "prepareJob"} \subseteq StepsDone
    /\ ~ctx.skipProjectConfiguration => "ensureProjectConfigured" \in StepsDone
    /\ ~ctx.localBuild => "uploadAsync" \in StepsDone

\* C13: the collaborators are called in the order credentials, project
\* configuration, commit check and review, project archive (tarball, upload),
\* metadata, job; a build request is sent only after all of them completed and
\* only by an invocation of the returned sender.
C13_PrepareInOrderThenSend ==
    ppc # "idle" =>
        /\ \A i, j \in DOMAIN steps :
              i < j => /\ Rank(steps[i]) <= Rank(steps[j])
                       /\ Rank(steps[i]) = Rank(steps[j]) => Rank(steps[i]) = 10
        /\ ppc = "prepared" => AllPrepared
        /\ (requests > 0 \/ "sendBuildRequest" \in StepsDone)
              => /\ ppc = "prepared"
                 /\ AllPrepared
                 /\ invocations >= 1
                 /\ requests <= invocations

C13_Witness ==
    /\ ppc = "prepared"
    /\ spc = "returned"
    /\ requests = 1
    /\ "reviewAndCommitChanges" \in StepsDone
    /\ "ensureProjectConfigured" \in StepsDone
    /\ "uploadAsync" \in StepsDone

\* the collaborator whose rejection is the given error
ThrowingStep(err) ==
    CASE err = CredentialsError -> "ensureCredentials"
      [] err = ConfigurationError -> "ensureProjectConfigured"
      [] err = CommitRequiredError -> "isCommitRequired"
      [] err = CommitReviewError -> "reviewAndCommitChanges"
      [] err = TarballError -> "makeProjectTarball"
      [] err = UploadFailed -> "uploadAsync"
      [] err = MetadataError -> "collectMetadata"
      [] err = PrepareJobError -> "prepareJob"

\* C14: when a prepare step throws, no later prepare step runs (the step that
\* threw is the last one performed, the removal of the uploaded tarball apart,
\* and nothing further can happen), no sender is returned and no build
\* request is sent.
C14_ThrowStopsPreparation ==
    (ppc # "idle" /\ prepThrown # NoError) =>
        /\ ppc = "thrown"
        /\ \A i \in DOMAIN steps :
              Rank(steps[i]) > Rank(ThrowingStep(prepThrown))
                  => (steps[i] = "fs.remove" /\ prepThrown = UploadFailed)
        /\ ThrowingStep(prepThrown) \in StepsDone
        /\ spc = "idle"
        /\ invocations = 0
        /\ requests = 0
        /\ job = NoJob
        /\ ~ENABLED PrepNext

C14_Witness ==
    /\ ppc = "thrown"
    /\ prepThrown = CommitReviewError
    /\ steps[Len(steps)] = "reviewAndCommitChanges"

\* C15: in local-build mode the project is not uploaded, no build request is
\* sent, the sender hands the job to the local runner and resolves to no build.
C15_LocalBuildStaysLocal ==
    (ppc # "idle" /\ ctx.localBuild) =>
        /\ requests = 0
        /\ responses = <<>>
        /\ "uploadAsync" \notin StepsDone
        /\ "sendBuildRequest" \notin StepsDone
        /\ projectArchive \in {NoProjectArchive, PathArchive(TarballPath)}
        /\ invocations > 0 => "runLocalBuild" \in StepsDone
        /\ senderResult \in {"none", Undefined}
        /\ spc = "returned" => senderResult = Undefined

C15_Witness ==
    /\ ppc = "prepared"
    /\ ctx.localBuild
    /\ spc = "returned"
    /\ senderResult = Undefined
    /\ job.projectArchive = PathArchive(TarballPath)

\* C16: once uploadProjectAsync has ended, after a successful upload and after
\* an upload that threw, the tarball it made is no longer on disk, and the
\* error of the upload is the error that is propagated.
C16_UploadRemovesTarball ==
    (ppc \notin {"idle", "credentials", "configure", "commit", "archive"}
     /\ ~ctx.localBuild) =>
        /\ disk = {}
        /\ "uploadAsync" \in StepsDone => "fs.remove" \in StepsDone
        /\ (ppc = "thrown" /\ steps[Len(steps)] \in {"uploadAsync", "fs.remove"})
              => prepThrown = UploadFailed
        /\ ppc # "thrown" => projectArchive = S3Archive("bucket-key")

C16_Witness ==
    /\ ppc = "thrown"
    /\ ~ctx.localBuild
    /\ prepThrown = UploadFailed
    /\ "fs.remove" \in StepsDone
    /\ disk = {}

\* C17 (as stated): once prepareBuildRequestForPlatformAsync has returned or
\* thrown, no tarball it made is on disk.
C17_NoTarballAfterPreparation ==
    ppc \in {"prepared", "thrown"} => disk = {}

\* the message lines 103-134 assign to an error code
MessageOfCode(code, platform) ==
    CASE code = "TURTLE_DEPRECATED_JOB_FORMAT" -> DeprecatedJobFormatMessage
      [] code = "EAS_BUILD_DOWN_FOR_MAINTENANCE" -> MaintenanceMessage
      [] code = "EAS_BUILD_FREE_TIER_DISABLED" -> FreeTierDisabledMessage
      [] code = "EAS_BUILD_TOO_MANY_PENDING_BUILDS" ->
            TooManyPendingBuildsMessage(platform)
      [] OTHER -> GenericRejectionMessage

\* C18: when the service rejects a request with a GraphQL error, the sender
\* logs exactly the message of the error code: one message of its own for each
\* of the four known codes (the fourth one names the platform) and the generic
\* message for every other code; the sender rejects and resolves to no build.
C18_CodeSelectsMessage ==
    [][ ( /\ invocations' = invocations + 1
          /\ ~ctx.localBuild
          /\ ~responses'[Len(responses')].ok
          /\ responses'[Len(responses')].error.graphQL )
        => LET code == errorCode(responses'[Len(responses')].error)
           IN /\ logged' = Append(logged, MessageOfCode(code, ctx.platform))
              /\ Cardinality({MessageOfCode(c, ctx.platform) :
                                 c \in KnownErrorCodes \cup {OtherErrorCode}}) = 5
              /\ TooManyPendingBuildsMessage("android")
                    # TooManyPendingBuildsMessage("ios")
              /\ spc' = "thrown"
              /\ senderResult' = "none"
              /\ senderThrown' # NoSendError ]_vars

C18_Witness ==
    /\ spc = "thrown"
    /\ responses # <<>>
    /\ errorCode(responses[Len(responses)].error) = "EAS_BUILD_TOO_MANY_PENDING_BUILDS"
    /\ logged # <<>>
    /\ logged[Len(logged)] = TooManyPendingBuildsMessage(ctx.platform)
    /\ ctx.platform = "ios"

\* the kind of dispatch failure an error value lets its reader tell
KindOf(error) ==
    CASE errorCode(error) \in KnownErrorCodes -> errorCode(error)
      [] error.graphQL -> "UNKNOWN_REJECTION"
      [] OTHER -> "NOT_A_REJECTION"

\* C19 (as stated): the error that leaves the sender after a failed request
\* tells which kind of rejection the service answered.
C19_ThrownErrorCarriesKind ==
    (ppc = "prepared" /\ ~ctx.localBuild /\ spc = "thrown") =>
        KindOf(senderThrown) = KindOf(responses[Len(responses)].error)

\* C19 (amended): no failed request is dropped, the sender rejects and
\* resolves to no build; for the four known codes the error thrown is the same
\* Error('Build request failed.') whatever the code, and for every other
\* failure it is the error of the service itself.
C19_FailuresPropagate ==
    (ppc = "prepared" /\ ~ctx.localBuild /\ responses # <<>>
     /\ ~responses[Len(responses)].ok) =>
        LET error == responses[Len(responses)].error
        IN /\ spc = "thrown"
           /\ senderResult = "none"
           /\ errorCode(error) \in KnownErrorCodes
                 => senderThrown = BuildRequestFailed
           /\ errorCode(error) \notin KnownErrorCodes => senderThrown = error

C19_Witness ==
    /\ spc = "thrown"
    /\ responses # <<>>
    /\ errorCode(responses[Len(responses)].error) = "EAS_BUILD_FREE_TIER_DISABLED"
    /\ senderThrown = BuildRequestFailed

\* C20: every invocation of the sender calls builder.sendBuildRequestAsync at
\* most once (once in remote mode, never in local-build mode), whether the
\* request is accepted or rejected.
C20_OneRequestPerInvocation ==
    ppc # "idle" =>
        /\ requests <= invocations
        /\ requests = (IF ctx.localBuild THEN 0 ELSE invocations)
        /\ Len(responses) = requests

C20_Witness ==
    /\ invocations = 1
    /\ requests = 1
    /\ spc = "thrown"
    /\ responses[1].error = GraphQLError(<<OtherErrorCode>>)

PrepareSteps ==
    {"ensureCredentials", "ensureProjectConfigured", "isCommitRequired",
     "reviewAndCommitChanges", "makeProjectTarball", "uploadAsync", "fs.remove",
     "collectMetadata", "prepareJob"}

Occurrences(step) == Cardinality({i \in DOMAIN steps : steps[i] = step})

\* C21: however many times the sender is invoked, and whether or not an
\* earlier request was rejected, every prepare step has been performed at most
\* once; an invocation adds the dispatch (request or local run) and nothing
\* else.
C21_RetryRepeatsOnlyDispatch ==
    ppc # "idle" =>
        /\ \A step \in PrepareSteps : Occurrences(step) <= 1
        /\ Occurrences("sendBuildRequest") + Occurrences("runLocalBuild")
              = invocations
        /\ invocations > 0 =>
              /\ job # NoJob
              /\ job.projectArchive = projectArchive
              /\ \A step \in PrepareSteps \ {"ensureProjectConfigured",
                        "reviewAndCommitChanges", "uploadAsync", "fs.remove"} :
                    Occurrences(step) = 1

\* the sender was invoked again after a rejected request
C21_Witness ==
    /\ invocations = 2
    /\ requests = 2
    /\ ~responses[1].ok
    /\ Occurrences("prepareJob") = 1
    /\ Occurrences("uploadAsync") = 1

\* a reference that resolves: a valid URL that is no build details page, an
\* existing file, the id of a build of the requested platform, or a list with
\* a build that can be selected
ResolvingSource(src) ==
    CASE src.sourceType = "url" ->
            validateUrl(src.url) /\ isBuildDetailsPage(src.url) = "false"
      [] src.sourceType = "path" -> isExistingFile(src.path)
      [] src.sourceType = "buildId" ->
            /\ BuildsById(src.id) # {}
            /\ \A b \in BuildsById(src.id) : b.platform = toAppPlatform(src.platform)
      [] src.sourceType = "buildList" ->
            LET recentBuilds == getRecentBuildsForSubmission(
                                    toAppPlatform(src.platform),
                                    BUILD_LIST_ITEM_COUNT)
            IN \E i \in DOMAIN recentBuilds : ~IsExpired(recentBuilds[i])
      [] OTHER -> FALSE

\* C22: interactive; once a call with a reference that resolves is due (the
\* one given at the start or the one the user supplied at the prompt),
\* getArchiveAsync eventually returns an Archive.
C22_ResolvingReferenceReturns ==
    (apc = "call" /\ calls < MaxCalls /\ ~source.nonInteractive
     /\ ResolvingSource(source))
        ~> (apc = "returned" /\ archive.source.sourceType = source.sourceType)

\* an Archive returned for a file the user supplied at the prompt
C22_Witness ==
    /\ apc = "returned"
    /\ ~initialSource.nonInteractive
    /\ initialSource.sourceType = "latest"
    /\ prompts >= 2
    /\ archive.source.sourceType = "path"
    /\ archive.url = uploadUrl(archive.source.path)

-----------------------------------------------------------------------------
(* getArchiveAsync: properties of the buildId and latest branches *)

\* the step of the call that handles a source of this type
HandlesSource(sourceType) ==
    /\ apc = "call"
    /\ source.sourceType = sourceType
    /\ calls' = calls + 1

\* the positions in the catalog of the builds of the platform of src
OfPlatform(src) ==
    {i \in DOMAIN catalog : catalog[i].platform = toAppPlatform(src.platform)}

\* C29: an Archive returned for a build id holds the build of that id and the
\* build is of the requested platform; a build of another platform is not
\* returned, and both it and a lookup that fails make the call go on as a
\* prompt source, with nothing returned and nothing raised.
C29_BuildIdPlatformMatches ==
    [][ HandlesSource("buildId") =>
          LET matching == {i \in DOMAIN catalog :
                              /\ catalog[i].id = source.id
                              /\ catalog[i].platform = toAppPlatform(source.platform)}
          IN IF lastQuery' = "resolved" /\ matching # {}
             THEN /\ apc' = "returned"
                  /\ archive'.source = source
                  /\ archive'.build.id = source.id
                  /\ archive'.build.platform = toAppPlatform(source.platform)
                  /\ archive'.url = NoUrl
             ELSE /\ apc' = "call"
                  /\ source' = [source EXCEPT !.sourceType = "prompt"]
                  /\ archive' = NoArchive
                  /\ rejected' = NoError ]_vars

\* the id given first is of a build of the other platform, the id given at the
\* prompt is of a build of the requested one, which is returned
C29_Witness ==
    /\ apc = "returned"
    /\ initialSource.sourceType = "buildId"
    /\ archive.source.sourceType = "buildId"
    /\ archive.source.id # initialSource.id
    /\ archive.build.platform = toAppPlatform(initialSource.platform)
    /\ \E i \in DOMAIN catalog :
          /\ catalog[i].id = initialSource.id
          /\ catalog[i].platform # toAppPlatform(initialSource.platform)

\* C30: when the query for the recent builds answers, a latest source returns
\* the newest build of the platform if there is one, expired or not and
\* without a prompt or a confirmation, and goes on as a prompt source exactly
\* when there is none.
C30_LatestReturnsNewest ==
    [][ (HandlesSource("latest") /\ lastQuery' = "resolved") =>
          /\ prompts' = prompts
          /\ confirms' = confirms
          /\ IF OfPlatform(source) # {}
             THEN /\ apc' = "returned"
                  /\ archive'.source = source
                  /\ archive'.url = NoUrl
                  /\ \E i \in OfPlatform(source) :
                        /\ archive'.build = catalog[i]
                        /\ \A j \in OfPlatform(source) :
                              i <= j /\ catalog[i].age <= catalog[j].age
             ELSE /\ apc' = "call"
                  /\ source' = [source EXCEPT !.sourceType = "prompt"]
                  /\ archive' = NoArchive ]_vars

\* the newest build of the platform is not the newest of the project and is
\* past the expiry window; it is returned without a prompt
C30_Witness ==
    /\ apc = "returned"
    /\ archive.source.sourceType = "latest"
    /\ IsExpired(archive.build)
    /\ prompts = 0
    /\ Len(catalog) >= 2
    /\ catalog[1].platform # archive.build.platform

-----------------------------------------------------------------------------
(* getArchiveAsync: properties of the path and buildList branches *)

\* C31: the upload is started only by a call on a path source whose file
\* exists; a call on a missing path starts no upload and goes on as a prompt
\* source; a call on an existing path starts exactly one upload, and what it
\* returns is the URL of that upload with the path source.
C31_UploadOnlyExistingPath ==
    [][ /\ uploads' # uploads =>
              /\ HandlesSource("path")
              /\ isExistingFile(source.path)
        /\ HandlesSource("path") =>
              IF isExistingFile(source.path)
              THEN /\ uploads' = uploads + 1
                   /\ apc' \in {"returned", "thrown"}
                   /\ apc' = "returned" =>
                         /\ archive'.url = uploadUrl(source.path)
                         /\ archive'.build = NoBuild
                         /\ archive'.source = source
                   /\ apc' = "thrown" => rejected' = UploadError
              ELSE /\ uploads' = uploads
                   /\ apc' = "call"
                   /\ source' = [source EXCEPT !.sourceType = "prompt"]
                   /\ archive' = NoArchive ]_vars

\* the path given first is missing, the path given at the prompt exists and
\* its upload is returned
C31_Witness ==
    /\ apc = "returned"
    /\ initialSource.sourceType = "path"
    /\ ~isExistingFile(initialSource.path)
    /\ archive.source.sourceType = "path"
    /\ isExistingFile(archive.source.path)
    /\ archive.url = uploadUrl(archive.source.path)
    /\ uploads = 1

\* the positions in the catalog of the builds of the platform of src that are
\* within the expiry window
FreshOfPlatform(src) ==
    {i \in OfPlatform(src) : catalog[i].age <= ExpiryDays}

\* C32: when the query for the recent builds answers, a buildList source shows
\* the list only if the platform has a build within the expiry window; it then
\* returns the build the user selects, or goes on as a prompt source when the
\* user selects the last choice. With no build, or only expired ones, it goes
\* on as a prompt source without showing the list. It returns nothing else.
C32_ListNeedsFreshBuild ==
    [][ /\ (HandlesSource("buildList") /\ lastQuery' = "resolved") =>
              IF FreshOfPlatform(source) = {}
              THEN /\ prompts' = prompts
                   /\ apc' = "call"
                   /\ source' = [source EXCEPT !.sourceType = "prompt"]
                   /\ archive' = NoArchive
              ELSE /\ prompts' = prompts + 1
                   /\ \/ /\ apc' = "returned"
                         /\ archive'.source = source
                         /\ archive'.url = NoUrl
                         /\ \E i \in OfPlatform(source) : archive'.build = catalog[i]
                      \/ /\ apc' = "call"
                         /\ source' = [source EXCEPT !.sourceType = "prompt"]
                         /\ archive' = NoArchive
        /\ (HandlesSource("buildList") /\ apc' = "returned") =>
              /\ lastQuery' = "resolved"
              /\ OfPlatform(source) # {}
              /\ FreshOfPlatform(source) # {}
              /\ archive'.build # NoBuild ]_vars

\* the list was shown twice: the user first selected the last choice, then a
\* build
C32_Witness ==
    /\ apc = "returned"
    /\ archive.source.sourceType = "buildList"
    /\ initialSource.sourceType = "buildList"
    /\ calls = 3
    /\ fetches = 2
    /\ prompts = 3

\* C33: in the list a buildList source shows, a build is disabled exactly when
\* it was updated more than 30 days ago, the last choice holds no build and
\* is not disabled, and every build of the list, disabled or not, can be
\* selected and is then returned as the build of the Archive.
C33_ExpiredFlaggedButSelectable ==
    ( /\ apc = "call"
      /\ calls < MaxCalls
      /\ source.sourceType = "buildList"
      /\ FreshOfPlatform(source) # {} ) =>
        LET recentBuilds == getRecentBuildsForSubmission(
                                toAppPlatform(source.platform),
                                BUILD_LIST_ITEM_COUNT)
            choices == BuildChoices(recentBuilds)
        IN /\ Len(choices) = Len(recentBuilds) + 1
           /\ choices[Len(choices)] = [value |-> NoBuild, disabled |-> FALSE]
           /\ \A k \in DOMAIN recentBuilds :
                 /\ choices[k].value = recentBuilds[k]
                 /\ choices[k].disabled = (recentBuilds[k].age > ExpiryDays)
                 /\ ENABLED ( /\ handleBuildListSource(TRUE, k)
                              /\ apc' = "returned"
                              /\ archive' = [url |-> NoUrl,
                                             build |-> recentBuilds[k],
                                             source |-> source] )

\* a build past the expiry window was selected from a list that also had a
\* build updated exactly 30 days ago, and is returned
C33_Witness ==
    /\ apc = "returned"
    /\ archive.source.sourceType = "buildList"
    /\ IsExpired(archive.build)
    /\ \E i \in OfPlatform(archive.source) : catalog[i].age = ExpiryDays

-----------------------------------------------------------------------------
(* getArchiveAsync: properties of the recursion *)

\* the step of a call that ends in another call of getArchiveAsync
Recurses == apc = "call" /\ calls' = calls + 1 /\ apc' = "call"

\* C34: the source of every recursive call has the platform, the projectId and
\* the nonInteractive flag of the source the command started from, and differs
\* from the source of the calling branch only in sourceType and in the field
\* the branch sets; the source object the caller holds is never changed, and
\* neither is the source of a call that returns or throws.
C34_RecursionKeepsBaseFields ==
    [][ /\ initialSource' = initialSource
        /\ source'.platform = initialSource.platform
        /\ source'.projectId = initialSource.projectId
        /\ source'.nonInteractive = initialSource.nonInteractive
        /\ Recurses =>
              \/ source' = [source EXCEPT !.sourceType = source'.sourceType]
              \/ source' = [source EXCEPT !.sourceType = "url", !.url = source'.url]
              \/ source' = [source EXCEPT !.sourceType = "path", !.path = source'.path]
              \/ source' = [source EXCEPT !.sourceType = "buildId", !.id = source'.id]
        /\ ~Recurses => source' = source ]_vars

\* a path source went through the prompt into a URL source and from there
\* into a buildId source, which carries the path and the URL along
C34_Witness ==
    /\ apc = "call"
    /\ calls = 3
    /\ initialSource.sourceType = "path"
    /\ initialSource.platform = "ios"
    /\ source.sourceType = "buildId"
    /\ source.platform = "ios"
    /\ source.path = initialSource.path
    /\ source.url # NoUrl
    /\ source.id # ""

\* C35: a call on a source other than a prompt source recurses only into a
\* prompt source, except that a URL source recurses into a buildId source
\* with the id of the URL once the user has confirmed; a call on a prompt
\* source recurses only into a buildList, url, path or buildId source. No
\* call recurses into a latest source or into a source of its own type.
C35_RecursionTargets ==
    [][ Recurses =>
          /\ source'.sourceType # source.sourceType
          /\ source'.sourceType # "latest"
          /\ IF source.sourceType = "prompt"
             THEN source'.sourceType \in {"buildList", "url", "path", "buildId"}
             ELSE \/ source'.sourceType = "prompt"
                  \/ /\ source.sourceType = "url"
                     /\ source'.sourceType = "buildId"
                     /\ source'.id = isBuildDetailsPage(source.url)
                     /\ ~source.nonInteractive
                     /\ confirms' = confirms + 1 ]_vars

\* a URL source went on as a buildId source, that one as a prompt source and
\* that one as a buildList source
C35_Witness ==
    /\ apc = "call"
    /\ calls = 3
    /\ confirms = 1
    /\ initialSource.sourceType = "url"
    /\ source.sourceType = "buildList"
    /\ source.id # ""

-----------------------------------------------------------------------------
(* prepareBuildRequestForPlatformAsync: properties of the opt-outs *)

\* provider.getCredentialsAsync was called: it resolved with the credentials
\* or rejected
ProviderCalled == credentialsResult = "credentials" \/ prepThrown = CredentialsError

\* the prepare steps of a preparation that completed, in order; review: the
\* commit review, if it was required
ExpectedSteps(review) ==
    <<"ensureCredentials">>
    \o (IF ctx.skipProjectConfiguration THEN <<>> ELSE <<"ensureProjectConfigured">>)
    \o <<"isCommitRequired">> \o review
    \o (IF ctx.localBuild THEN <<"makeProjectTarball">>
        ELSE <<"makeProjectTarball", "uploadAsync", "fs.remove">>)
    \o <<"collectMetadata", "prepareJob">>

\* C36: the project configuration is synced exactly when
\* skipProjectConfiguration is false, the credentials provider is called
\* exactly when withoutCredentials is not set, a job made without credentials
\* carries none, and whatever the two options say the other prepare steps
\* run, in the same order.
C36_OptOutsSuppressOwnStep ==
    ppc # "idle" =>
        /\ "ensureProjectConfigured" \in StepsDone => ~ctx.skipProjectConfiguration
        /\ ( /\ ~ctx.skipProjectConfiguration
             /\ ppc \notin {"credentials", "configure"}
             /\ prepThrown # CredentialsError )
              => "ensureProjectConfigured" \in StepsDone
        /\ ctx.withoutCredentials =>
              /\ ~ProviderCalled
              /\ credentialsResult \in {"none", Undefined}
              /\ job # NoJob => job.credentials = Undefined
        /\ (~ctx.withoutCredentials /\ ppc # "credentials") => ProviderCalled
        /\ (~ctx.withoutCredentials /\ job # NoJob) => job.credentials = "credentials"
        /\ ppc = "prepared" =>
              \E review \in {<<>>, <<"reviewAndCommitChanges">>} :
                  /\ Len(steps) >= Len(ExpectedSteps(review))
                  /\ SubSeq(steps, 1, Len(ExpectedSteps(review))) = ExpectedSteps(review)

\* a preparation with both opt-outs completed, with the upload, and made a
\* job without credentials
C36_Witness ==
    /\ ppc = "prepared"
    /\ ctx.skipProjectConfiguration
    /\ ctx.withoutCredentials
    /\ job.credentials = Undefined
    /\ "ensureProjectConfigured" \notin StepsDone
    /\ "reviewAndCommitChanges" \in StepsDone
    /\ "uploadAsync" \in StepsDone

\* C39: the source of a returned Archive is the source of the call that
\* returned it and is never a prompt source; an Archive with a url has a url
\* or path source, an Archive with a build has a latest, buildId or buildList
\* source.
C39_ArchiveNamesItsBranch ==
    apc = "returned" =>
        /\ archive.source = source
        /\ archive.source.sourceType # "prompt"
        /\ archive.url # NoUrl => archive.source.sourceType \in {"url", "path"}
        /\ archive.build # NoBuild =>
              archive.source.sourceType \in {"latest", "buildId", "buildList"}
        /\ archive.source.sourceType = "url" => archive.url = archive.source.url
        /\ archive.source.sourceType = "buildId" =>
              archive.build.id = archive.source.id

\* the build of a details page URL, returned with the buildId source made
\* from the URL source
C39_Witness ==
    /\ apc = "returned"
    /\ initialSource.sourceType = "url"
    /\ calls = 2
    /\ archive.source.sourceType = "buildId"
    /\ archive.source.url = initialSource.url
    /\ archive.build # NoBuild

-----------------------------------------------------------------------------
(* waitForBuildEndAsync: properties of the ticks *)

\* terminal: Finished, Canceled, or Errored with an error
TerminalSnapshot(b) ==
    /\ b # Null
    /\ \/ b.status \in {Finished, Canceled}
       \/ b.status = Errored /\ b.error

\* the fetch failed, or the build is New, InQueue or InProgress
InFlightSnapshot(b) == b = Null \/ b.status \in {New, InQueue, InProgress}

\* the step that ends the fetch round of a tick (lines 232-305)
EndsFetchRound == pc = "fetch" /\ pc' # "fetch"

\* C23 (as stated): a tick whose builds are all terminal returns without
\* sleeping, and every other tick sleeps.
C23_ReturnsOrSleeps ==
    (pc \in {"returned", "sleep", "thrown"} /\ thrown # TimeoutReached) =>
        IF \A i \in DOMAIN builds : TerminalSnapshot(builds[i])
        THEN pc = "returned"
        ELSE pc = "sleep"

\* C23 (amended): a tick whose builds are all terminal returns them without
\* sleeping; a tick with a build whose fetch failed or that is New, InQueue or
\* InProgress sleeps intervalSec and then tests the timeout again.
C23_TerminalReturnsInFlightSleeps ==
    [][ /\ EndsFetchRound =>
              /\ (\A i \in DOMAIN builds' : TerminalSnapshot(builds'[i]))
                    => /\ pc' = "returned"
                       /\ result' = builds'
                       /\ thrown' = NoError
                       /\ clock' = clock + fetchLatency
              /\ (\E i \in DOMAIN builds' : InFlightSnapshot(builds'[i]))
                    => /\ pc' = "sleep"
                       /\ result' = NoResult
                       /\ thrown' = NoError
        /\ pc = "sleep" =>
              /\ pc' = "loop"
              /\ clock' = clock + intervalSec * MsPerSec ]_vars

\* two builds, both terminal, one canceled and one failed, are returned
C23_Witness ==
    /\ pc = "returned"
    /\ Len(result) = 2
    /\ result[1].status = Canceled
    /\ result[2].status = Errored
    /\ clock = fetchLatency

\* C24 (as stated): a build that a tick has observed in a terminal status is
\* not fetched again, and its slot keeps that snapshot in every later tick.
C24_TerminalNotFetchedAgain ==
    /\ pc = "fetch" =>
          \A i \in pending : ~TerminalSnapshot(BuildFragment(buildIds[i],
                                                             remote[buildIds[i]]))
    /\ pc = "sleep" =>
          \A i \in DOMAIN builds :
              TerminalSnapshot(BuildFragment(buildIds[i], remote[buildIds[i]]))
                  => builds[i] = BuildFragment(buildIds[i], remote[buildIds[i]])

\* C25: a fetch that throws gives a null slot for its build only: the slots of
\* the other builds hold what their fetches resolved to, the tick raises
\* nothing and sleeps, and the next tick fetches every build again; the call
\* raises only at the timeout or from a tick without a failed fetch.
C25_FailedFetchIsNullSlot ==
    /\ pc = "fetch" =>
          /\ \A i \in DOMAIN buildIds : i \in pending \/ \E k \in DOMAIN order : order[k] = i
          /\ \A i \in DOMAIN settled :
                \/ settled[i] = Null
                \/ settled[i] = BuildFragment(buildIds[i], remote[buildIds[i]])
    /\ (\E i \in DOMAIN builds : builds[i] = Null) =>
          /\ pc = "sleep"
          /\ thrown = NoError
          /\ result = NoResult
          /\ \A j \in DOMAIN builds :
                \/ builds[j] = Null
                \/ builds[j] = BuildFragment(buildIds[j], remote[buildIds[j]])
    /\ thrown # NoError =>
          \/ thrown = TimeoutReached
          \/ /\ thrown \in {StandaloneBuildFailed, UnknownBuildStatus}
             /\ \A i \in DOMAIN builds : builds[i] # Null

\* the tick of a failed and a resolved fetch sleeps
C25_Witness ==
    /\ pc = "sleep"
    /\ Len(builds) = 2
    /\ builds[1] = Null
    /\ builds[2] # Null
    /\ builds[2].status = Finished

\* the orders in which the fetches of a tick can complete
CompletionOrders ==
    {o \in [DOMAIN buildIds -> DOMAIN buildIds] :
        \A i, j \in DOMAIN buildIds : i # j => o[i] # o[j]}

\* C26: a tick starts the fetches of all builds together, evaluates only when
\* every fetch has resolved or failed, and its builds and what it does with
\* them are the same for every order in which the fetches complete.
C26_FanOutFanIn ==
    [][ /\ (pc = "loop" /\ pc' = "fetch") =>
              /\ pending' = DOMAIN buildIds
              /\ order' = <<>>
        /\ (pc = "fetch" /\ pc' = "fetch") =>
              /\ builds' = builds
              /\ result' = result
              /\ thrown' = thrown
        /\ EndsFetchRound =>
              /\ pending = {}
              /\ order \in CompletionOrders
              /\ \A o \in CompletionOrders : PromiseAll(settled, o) = builds'
              /\ (Outcome(builds') = "return") = (pc' = "returned")
              /\ (Outcome(builds') = "continue") = (pc' = "sleep") ]_vars

\* the second fetch completed first, with another result than the first
C26_Witness ==
    /\ pc = "fetch"
    /\ pending = {}
    /\ order = <<2, 1>>
    /\ settled[1] # settled[2]
    /\ settled[2] = Null

\* C27: with several builds, a build that failed with an error never makes
\* the call raise and never makes it return while another build is not
\* terminal; the builds returned are all terminal, each in its own slot.
C27_ErroredDoesNotAbortOthers ==
    Len(buildIds) >= 2 =>
        /\ thrown \in {NoError, TimeoutReached}
        /\ pc = "returned" =>
              \A i \in DOMAIN buildIds :
                  /\ result[i] = BuildFragment(buildIds[i], remote[buildIds[i]])
                  /\ result[i].status \in {Finished, Errored, Canceled}
        /\ ( /\ Len(builds) = Len(buildIds)
             /\ \E i \in DOMAIN builds :
                   builds[i] # Null /\ builds[i].status = Errored /\ builds[i].error
             /\ \E j \in DOMAIN builds :
                   \/ builds[j] = Null
                   \/ builds[j].status \notin {Finished, Errored, Canceled} )
              => /\ pc = "sleep"
                 /\ thrown = NoError
                 /\ result = NoResult

\* a failed build is returned with a build that finished in a later tick
C27_Witness ==
    /\ pc = "returned"
    /\ Len(result) = 2
    /\ result[1].status = Errored
    /\ result[1].error
    /\ result[2].status = Finished
    /\ clock >= intervalSec * MsPerSec

\* C28 (as stated): with several builds, in a tick that does not return, the
\* seven counts of the spinner text add up to the number of builds and the
\* unknown count is the number of builds whose fetch failed or whose status is
\* none of the six of BuildStatus.
C28_CountsAddUp ==
    (pc = "sleep" /\ Len(buildIds) >= 2) =>
        LET c == SpinnerCounts(builds)
        IN /\ c.newBuilds + c.inQueue + c.inProgress + c.canceled + c.errored
                 + c.finished + c.unknown = Len(buildIds)
           /\ c.unknown = Cardinality({i \in DOMAIN builds :
                                          \/ builds[i] = Null
                                          \/ builds[i].status \notin BuildStatus})

-----------------------------------------------------------------------------
(* waitForBuildEndAsync: properties of the result *)

\* C37: whenever waitForBuildEndAsync has returned, nothing was raised, the
\* result is the array of builds of the last tick, with one slot per id, and
\* every slot holds a build (no null) whose status is Finished, Errored or
\* Canceled.
C37_ResultAllTerminal ==
    pc = "returned" =>
        /\ thrown = NoError
        /\ result = builds
        /\ DOMAIN result = DOMAIN buildIds
        /\ clock = tickStart + fetchLatency
        /\ \A i \in DOMAIN result :
              /\ result[i] # Null
              /\ result[i].id = buildIds[i]
              /\ result[i].status \in {Finished, Errored, Canceled}

\* two builds returned in a later tick, one failed without an error and one
\* canceled
C37_Witness ==
    /\ pc = "returned"
    /\ Len(result) = 2
    /\ result[1].status = Errored
    /\ ~result[1].error
    /\ result[2].status = Canceled
    /\ tickStart > 0

\* C38: called with no build id, waitForBuildEndAsync enters the loop whatever
\* timeoutSec is, evaluates the empty fetch round of the first tick and
\* returns the empty array: it never sleeps and never raises.
C38_EmptyListReturnsAtOnce ==
    (buildIds = <<>> /\ pc # "idle") =>
        /\ pc \in {"init", "loop", "fetch", "returned"}
        /\ thrown = NoError
        /\ tickStart = 0
        /\ pc = "loop" => (time <= endTime /\ ENABLED StartFetches)
        /\ pc = "fetch" => (pending = {} /\ ENABLED Evaluate)
        /\ pc = "returned" => result = <<>>

\* the empty array returned with a timeout of zero seconds
C38_Witness ==
    /\ pc = "returned"
    /\ buildIds = <<>>
    /\ timeoutSec = 0
    /\ result = <<>>


=============================================================================
